---- MODULE Spec2Model ----
(***************************************************************************)
(* The health-monitoring engine of the status page (package monitor) and   *)
(* the part of package storage it persists through.                        *)
(*                                                                         *)
(* Conventions                                                             *)
(*   - a time.Duration is counted in microseconds (Go counts nanoseconds;  *)
(*     the unit is 1000 ns so that seconds fit the checker's integers);    *)
(*   - a time.Time is a reading of one logical clock; every time.Now()     *)
(*     call takes the next reading; 0 is the zero time.Time{};             *)
(*   - a float64 uptime is the exact rational it stands for, in lowest     *)
(*     terms, [num, den];                                                  *)
(*   - a channel is a record [buf, closed]; chans maps the channels made   *)
(*     so far to their contents;                                           *)
(*   - one scheduler task per entry of services, named by its index.       *)
(***************************************************************************)
EXTENDS Integers, Sequences, FiniteSets, TLC

VARIABLES
    services,     \* Monitor.services: the configured services, in order
    statuses,     \* Monitor.statuses: name -> ServiceStatus
    store,        \* bucket check_history: name -> stored JSON document
    clock,        \* the last reading time.Now() returned
    mu,           \* Monitor.mu:    [writer, readers], sets of lock holders
    subMu,        \* Monitor.subMu: [writer, readers], sets of lock holders
    subscribers,  \* Monitor.subscribers: sequence of channels
    chans,        \* channel -> [buf, closed], for every channel made
    started,      \* Start has been called
    ctxDone,      \* Monitor.ctx is cancelled
    pc,           \* task -> position in monitorService/checkService/updateStatus
    args,         \* task -> arguments of the updateStatus call in progress
    statusCopy,   \* task -> updateStatus's local statusCopy
    rangeSubs,    \* task -> the slice notifySubscribers ranges over
    rangeIdx,     \* task -> index of the next element of that range
    tick,         \* task -> a tick waits in ticker.C
    cpc,          \* client -> position in Subscribe/Unsubscribe
    cch,          \* client -> the channel of its call
    overall,      \* the last value GetOverallStatus returned to the reader
    rpc,          \* position of the reader in the Get... call it is making
    rarg,         \* the name the reader passed to GetStatus
    snap,         \* what GetStatus or GetAllStatuses last returned to the
                  \* reader: the sequence of snapshots (empty for nil)
    calls,        \* task -> the updateStatus calls the path its probe is on
                  \* has yet to make
    heap,         \* the ServiceStatus objects and the arrays behind their
                  \* History slices, as laid out in memory (followed in
                  \* the runs whose limits bound the writes to snapshots;
                  \* entries are values everywhere else)
    lim,          \* the limits of the run being checked (fixed by Init)
    hist,         \* history variables: what has happened so far
    web,          \* the web server: its API configuration, the incident and
                  \* maintenance buckets, and the answer to the last request
    daily         \* bucket history (service name -> its daily records), the
                  \* last RecordDailyStatus call, and how many calls of the
                  \* run were for a date of the past or for an early date

vars == <<services, statuses, store, clock, mu, subMu, subscribers, chans,
          started, ctxDone, pc, args, statusCopy, rangeSubs, rangeIdx, tick,
          cpc, cch, overall, rpc, rarg, snap, calls, heap, lim, hist, web, daily>>

----------------------------------------------------------------------------
(* Program constants *)

maxHistory == 90

subscriberBuffer == 100

StatusOperational == "operational"
StatusDegraded == "degraded"
StatusDown == "down"
StatusUnknown == "unknown"

----------------------------------------------------------------------------
(* Bounds of the model *)

\* names available for configured services
MaxServices == 4
\* Fanout run: checks of the one service, enough to fill a subscriber's buffer
MaxChecksFanout == 102
\* Fanout run: clients subscribe before this many checks have started
SubscribeBy == 1
\* Fanout run: clients, and messages they take from their channels
MaxClients == 2
MaxReceives == 1
\* History run: checks of the one service, enough to pass maxHistory
MaxChecksHistory == 93
\* only the first MaxVarying probes of a run have a free outcome; later
\* probes find the service healthy
MaxVarying == 2
\* process restarts over the same store
MaxRestarts == 1
\* persistence writes that fail
MaxWriteFailures == 1

\* Scheduler run: checks of the two services together
MaxChecks == 4
\* Restore run: checks an earlier process persisted, per service
MaxStored == 2
\* Store run: checks of the two services together
MaxChecksStore == 3
\* Subscription run: checks of the two services together, clients of the
\* monitor, and calls of Unsubscribe
MaxPublications == 2
MaxSubscribers == 1
MaxUnsubscribes == 1

ServiceNames == <<"a", "b", "c", "d", "e", "f", "g", "h">>

----------------------------------------------------------------------------
(* Values *)

Min(a, b) == IF a <= b THEN a ELSE b

RECURSIVE GCD(_, _)
GCD(a, b) == IF b = 0 THEN a ELSE GCD(b, a % b)

\* the float64 value n/d
Rat(n, d) == LET g == GCD(n, d) IN [num |-> n \div g, den |-> d \div g]

\* time.Duration.Milliseconds: whole milliseconds, truncated
Milliseconds(d) == d \div 1000

\* config.Service entry of the service called n
Service(n) == [Name |-> n, Group |-> "core", URL |-> n, Description |-> n]

EmptyMap == [x \in {} |-> x]

----------------------------------------------------------------------------
(* Status Store: the data path of updateStatus *)

\* the ServiceStatus NewMonitor builds for a service with no snapshot
ColdStatus(svc) ==
    [Name |-> svc.Name, Group |-> svc.Group, URL |-> svc.URL,
     Description |-> svc.Description,
     Status |-> StatusUnknown, ResponseTime |-> 0, ResponseTimeMs |-> 0,
     StatusCode |-> 0, LastCheck |-> 0, Uptime |-> Rat(100, 1),
     ErrorMessage |-> "", History |-> << >>]

\* the HistoryPoint updateStatus builds
HistoryPoint(status, responseTime, statusCode, now) ==
    [Timestamp |-> now, ResponseTimeMs |-> Milliseconds(responseTime),
     Status |-> status, StatusCode |-> statusCode]

\* mutant: the trim is missing
TrimHistory_none(h) == h

\* mutant: the trim keeps the oldest maxHistory points
TrimHistory_oldest(h) ==
    IF Len(h) > maxHistory THEN SubSeq(h, 1, maxHistory) ELSE h

\* "Trim history if needed": the last maxHistory points
TrimHistory(h) ==
    IF Len(h) > maxHistory THEN SubSeq(h, Len(h) - maxHistory + 1, Len(h)) ELSE h

\* mutant: a degraded point does not count as up
RECURSIVE CountUp_operationalOnly(_)
CountUp_operationalOnly(h) ==
    IF h = << >> THEN 0
    ELSE (IF Head(h).Status = StatusOperational THEN 1 ELSE 0)
         + CountUp_operationalOnly(Tail(h))

\* number of points the uptime loop counts as operational
RECURSIVE CountUp(_)
CountUp(h) ==
    IF h = << >> THEN 0
    ELSE (IF Head(h).Status = StatusOperational \/ Head(h).Status = StatusDegraded
          THEN 1 ELSE 0) + CountUp(Tail(h))

\* "Calculate uptime from history"; old is the uptime kept for an empty history
CalcUptime(h, old) ==
    IF Len(h) > 0 THEN Rat(CountUp(h) * 100, Len(h)) ELSE old

\* mutant: the update writes every field but the classification
SetFields_noStatus(st, a, now) ==
    [st EXCEPT !.ResponseTime = a.responseTime,
               !.ResponseTimeMs = Milliseconds(a.responseTime),
               !.StatusCode = a.statusCode,
               !.LastCheck = now,
               !.ErrorMessage = a.errMsg]

\* mutant: the update replaces the entry by a fresh one that has only the
\* name, the history, the uptime and the six fields
SetFields_freshEntry(st, a, now) ==
    [st EXCEPT !.Group = "",
               !.Description = "",
               !.Status = a.status,
               !.ResponseTime = a.responseTime,
               !.ResponseTimeMs = Milliseconds(a.responseTime),
               !.StatusCode = a.statusCode,
               !.LastCheck = now,
               !.ErrorMessage = a.errMsg]

\* "Update status": the six field writes
SetFields(st, a, now) ==
    [st EXCEPT !.Status = a.status,
               !.ResponseTime = a.responseTime,
               !.ResponseTimeMs = Milliseconds(a.responseTime),
               !.StatusCode = a.statusCode,
               !.LastCheck = now,
               !.ErrorMessage = a.errMsg]

\* "Add to history" and "Trim history if needed"
AddPoint(st, a, now) ==
    [st EXCEPT !.History = TrimHistory(Append(@,
                   HistoryPoint(a.status, a.responseTime, a.statusCode, now)))]

\* "Calculate uptime from history"
SetUptime(st) == [st EXCEPT !.Uptime = CalcUptime(st.History, @)]

\* the entry after updateStatus's writes under the lock; the two time.Now()
\* calls read now and now + 1
ApplyUpdate(st, a, now) ==
    SetUptime(AddPoint(SetFields(st, a, now), a, now + 1))

----------------------------------------------------------------------------
(* Persistence Gateway *)

\* HistoryPoint -> storage.CheckPoint, field by field
CheckPoints(h) ==
    [i \in 1..Len(h) |->
        [timestamp |-> h[i].Timestamp, response_time_ms |-> h[i].ResponseTimeMs,
         status |-> h[i].Status, status_code |-> h[i].StatusCode]]

\* In the strings of the model "#" stands for a byte that is part of no
\* valid UTF-8 sequence and "?" for the replacement character U+FFFD.
\* encoding/json writes a string "coerced to valid UTF-8, replacing invalid
\* bytes with the Unicode replacement rune"
RECURSIVE ToValidUTF8(_)
ToValidUTF8(s) ==
    IF s = "" THEN s
    ELSE (IF SubSeq(s, 1, 1) = "#" THEN "?" ELSE SubSeq(s, 1, 1))
         \o ToValidUTF8(SubSeq(s, 2, Len(s)))

\* mutant: the strings are written byte for byte
Marshal_rawBytes(name, checkPoints, uptime, lastCheck, errorMsg) ==
    LET doc == [service_name |-> name, history |-> checkPoints,
                uptime |-> uptime, last_check |-> lastCheck]
    IN IF errorMsg = "" THEN doc ELSE doc @@ [error_message |-> errorMsg]

\* json.Marshal(ServiceCheckHistory): error_message is omitempty
Marshal(name, checkPoints, uptime, lastCheck, errorMsg) ==
    LET doc == [service_name |-> ToValidUTF8(name), history |-> checkPoints,
                uptime |-> uptime, last_check |-> lastCheck]
    IN IF errorMsg = "" THEN doc
       ELSE doc @@ [error_message |-> ToValidUTF8(errorMsg)]

\* json.Unmarshal into a ServiceCheckHistory: a missing field keeps its zero value
Unmarshal(doc) ==
    [ServiceName |-> doc.service_name, History |-> doc.history,
     Uptime |-> doc.uptime, LastCheck |-> doc.last_check,
     ErrorMessage |-> IF "error_message" \in DOMAIN doc
                      THEN doc.error_message ELSE ""]

\* the bucket after a successful SaveServiceCheckHistory
SaveServiceCheckHistory(db, name, checkPoints, uptime, lastCheck, errorMsg) ==
    (name :> Marshal(name, checkPoints, uptime, lastCheck, errorMsg)) @@ db

GetAllServiceCheckHistory(db) == [k \in DOMAIN db |-> Unmarshal(db[k])]

\* mutant: the error message is not restored
RestoreStatus_noError(svc, persisted) ==
    LET h == [i \in 1..Len(persisted.History) |->
                 [Timestamp |-> persisted.History[i].timestamp,
                  ResponseTimeMs |-> persisted.History[i].response_time_ms,
                  Status |-> persisted.History[i].status,
                  StatusCode |-> persisted.History[i].status_code]]
        st == [ColdStatus(svc) EXCEPT !.History = h,
                                      !.Uptime = persisted.Uptime,
                                      !.LastCheck = persisted.LastCheck]
    IN IF Len(h) > 0
       THEN [st EXCEPT !.Status = h[Len(h)].Status,
                       !.ResponseTimeMs = h[Len(h)].ResponseTimeMs,
                       !.ResponseTime = h[Len(h)].ResponseTimeMs * 1000,
                       !.StatusCode = h[Len(h)].StatusCode]
       ELSE st

\* mutant: the restored entry keeps the classification of a cold start
RestoreStatus_keepsUnknown(svc, persisted) ==
    LET h == [i \in 1..Len(persisted.History) |->
                 [Timestamp |-> persisted.History[i].timestamp,
                  ResponseTimeMs |-> persisted.History[i].response_time_ms,
                  Status |-> persisted.History[i].status,
                  StatusCode |-> persisted.History[i].status_code]]
    IN [ColdStatus(svc) EXCEPT !.History = h,
                               !.Uptime = persisted.Uptime,
                               !.LastCheck = persisted.LastCheck,
                               !.ErrorMessage = persisted.ErrorMessage]

\* "Restore persisted history if available"
RestoreStatus(svc, persisted) ==
    LET h == [i \in 1..Len(persisted.History) |->
                 [Timestamp |-> persisted.History[i].timestamp,
                  ResponseTimeMs |-> persisted.History[i].response_time_ms,
                  Status |-> persisted.History[i].status,
                  StatusCode |-> persisted.History[i].status_code]]
        st == [ColdStatus(svc) EXCEPT !.History = h,
                                      !.Uptime = persisted.Uptime,
                                      !.LastCheck = persisted.LastCheck,
                                      !.ErrorMessage = persisted.ErrorMessage]
    IN IF Len(h) > 0
       THEN [st EXCEPT !.Status = h[Len(h)].Status,
                       !.ResponseTimeMs = h[Len(h)].ResponseTimeMs,
                       !.ResponseTime = h[Len(h)].ResponseTimeMs * 1000,
                       !.StatusCode = h[Len(h)].StatusCode]
       ELSE st

\* mutant: every persisted document gets an entry, configured or not
NewMonitor_allPersisted(svcs, db) ==
    LET persistedHistory == GetAllServiceCheckHistory(db)
        names == {svcs[i].Name : i \in 1..Len(svcs)}
        last(n) == CHOOSE i \in 1..Len(svcs) :
                      /\ svcs[i].Name = n
                      /\ \A j \in (i + 1)..Len(svcs) : svcs[j].Name # n
    IN [n \in names \cup DOMAIN persistedHistory |->
          IF n \in DOMAIN persistedHistory
          THEN RestoreStatus(IF n \in names THEN svcs[last(n)] ELSE Service(n),
                             persistedHistory[n])
          ELSE ColdStatus(svcs[last(n)])]

\* Monitor.statuses as NewMonitor builds it: one entry per name, the last
\* configured service of that name deciding
NewMonitor(svcs, db) ==
    LET persistedHistory == GetAllServiceCheckHistory(db)
        last(n) == CHOOSE i \in 1..Len(svcs) :
                      /\ svcs[i].Name = n
                      /\ \A j \in (i + 1)..Len(svcs) : svcs[j].Name # n
    IN [n \in {svcs[i].Name : i \in 1..Len(svcs)} |->
          IF n \in DOMAIN persistedHistory
          THEN RestoreStatus(svcs[last(n)], persistedHistory[n])
          ELSE ColdStatus(svcs[last(n)])]

----------------------------------------------------------------------------
(* Aggregator *)

RECURSIVE CountStatus(_, _, _)
\* the counting loop of GetOverallStatus over the entries named in keys
CountStatus(sts, keys, which) ==
    IF keys = {} THEN 0
    ELSE LET k == CHOOSE x \in keys : TRUE
         IN (IF sts[k].Status = which THEN 1 ELSE 0)
            + CountStatus(sts, keys \ {k}, which)

\* mutant: any service down makes the whole system down
GetOverallStatus_anyDown(sts) ==
    IF \E k \in DOMAIN sts : sts[k].Status = StatusDown THEN StatusDown
    ELSE IF \E k \in DOMAIN sts : sts[k].Status = StatusDegraded THEN StatusDegraded
    ELSE StatusOperational

\* mutant: the total counts the services that have been checked
GetOverallStatus_checkedOnly(sts) ==
    LET checked == {k \in DOMAIN sts : sts[k].Status # StatusUnknown}
        total == Cardinality(checked)
        downCount == CountStatus(sts, DOMAIN sts, StatusDown)
        degradedCount == CountStatus(sts, DOMAIN sts, StatusDegraded)
    IN IF total = 0 THEN StatusOperational
       ELSE IF downCount > total \div 2 THEN StatusDown
       ELSE IF downCount > 0 \/ degradedCount > 0 THEN StatusDegraded
       ELSE StatusOperational

GetOverallStatus(sts) ==
    LET total == Cardinality(DOMAIN sts)
        downCount == CountStatus(sts, DOMAIN sts, StatusDown)
        degradedCount == CountStatus(sts, DOMAIN sts, StatusDegraded)
    IN IF total = 0 THEN StatusOperational
       ELSE IF downCount > total \div 2 THEN StatusDown
       ELSE IF downCount > 0 \/ degradedCount > 0 THEN StatusDegraded
       ELSE StatusOperational

----------------------------------------------------------------------------
(* Event Broadcaster: one non-blocking send *)

\* what a channel of *ServiceStatus carries: the address of the copy made by
\* updateStatus, named here by the service and the LastCheck reading of that
\* copy (every update reads the clock anew, so every copy has its own)
Ref(status) == [Name |-> status.Name, LastCheck |-> status.LastCheck]

\* mutant: a full buffer makes room by dropping its oldest entry
TrySend_dropOldest(ch, status) ==
    IF Len(ch.buf) < subscriberBuffer
    THEN [ch EXCEPT !.buf = Append(@, status)]
    ELSE [ch EXCEPT !.buf = Append(Tail(@), status)]

\* mutant: the update goes to the front of the buffer
TrySend_front(ch, status) ==
    IF Len(ch.buf) < subscriberBuffer
    THEN [ch EXCEPT !.buf = <<status>> \o @]
    ELSE ch

\* select { case ch <- status: default: } on an open channel
TrySend(ch, status) ==
    IF Len(ch.buf) < subscriberBuffer
    THEN [ch EXCEPT !.buf = Append(@, status)]
    ELSE ch

----------------------------------------------------------------------------
(* Locks (sync.RWMutex) and lock holders *)

TaskId(t) == <<"task", t>>
ClientId(c) == <<"client", c>>
ReaderId == <<"reader", 1>>

Unlocked == [writer |-> {}, readers |-> {}]

CanLock(l) == l.writer = {} /\ l.readers = {}
CanRLock(l) == l.writer = {}

Lock(l, who) == [l EXCEPT !.writer = {who}]
Unlock(l, who) == [l EXCEPT !.writer = @ \ {who}]
RLock(l, who) == [l EXCEPT !.readers = @ \cup {who}]
RUnlock(l, who) == [l EXCEPT !.readers = @ \ {who}]

----------------------------------------------------------------------------
(* Probes: what a probe hands to updateStatus *)

Healthy ==
    [status |-> StatusOperational, responseTime |-> 120500, statusCode |-> 200,
     errMsg |-> ""]

ProbeOutcomes ==
    {Healthy,
     [status |-> StatusDegraded, responseTime |-> 2300000, statusCode |-> 200,
      errMsg |-> "slow response time"],
     [status |-> StatusDown, responseTime |-> 30250, statusCode |-> 0,
      errMsg |-> "connection refused"]}

NoArgs == [status |-> StatusUnknown, responseTime |-> 0, statusCode |-> 0, errMsg |-> ""]

----------------------------------------------------------------------------
(* Memory: objects and slices.  heap.objs are the ServiceStatus structs (a *)
(* pointer is an index): val holds the fields other than History, h the    *)
(* History slice header: its array, the offset of its first element in the *)
(* array and its length.  heap.arrs are the arrays: data holds the cells   *)
(* written so far, cap is the array's size.  heap.entry is m.statuses.     *)

\* the elements the slice h shows
Elements(hp, h) == SubSeq(hp.arrs[h.arr].data, h.off + 1, h.off + h.len)

\* the value of the object p points to
View(hp, p) == [hp.objs[p].val EXCEPT !.History = Elements(hp, hp.objs[p].h)]

\* the array after cell i is written (cells are counted from 1)
WriteCell(a, i, x) ==
    [a EXCEPT !.data = [j \in 1..(IF i > Len(@) THEN i ELSE Len(@)) |->
                           IF j = i THEN x ELSE @[j]]]

\* the size append gives the new array when the old one is full (the
\* runtime doubles small arrays and may round up further)
GrowCap(cap) == IF cap = 0 THEN 1 ELSE 2 * cap

\* obj.History = append(obj.History, x): in place while the array has room
\* after the slice, into a new array otherwise
AppendTo(hp, p, x) ==
    LET h == hp.objs[p].h
        a == hp.arrs[h.arr]
    IN IF h.off + h.len < a.cap
       THEN [hp EXCEPT !.arrs[h.arr] = WriteCell(a, h.off + h.len + 1, x),
                       !.objs[p].h.len = @ + 1]
       ELSE [hp EXCEPT !.arrs = Append(@, [data |-> Append(Elements(hp, h), x),
                                            cap |-> GrowCap(h.len)]),
                       !.objs[p].h = [arr |-> Len(hp.arrs) + 1, off |-> 0,
                                      len |-> h.len + 1]]

\* obj.History = obj.History[len-maxHistory:] when it is longer than
\* maxHistory: the same array, seen from further on
TrimInPlace(hp, p) ==
    LET h == hp.objs[p].h IN
    IF h.len > maxHistory
    THEN [hp EXCEPT !.objs[p].h = [arr |-> h.arr, off |-> h.off + (h.len - maxHistory),
                                   len |-> maxHistory]]
    ELSE hp

\* updateStatus's writes through the pointer p
UpdateInPlace(hp, p, a, now) ==
    LET set == [hp EXCEPT !.objs[p].val = SetFields(@, a, now)]
        grown == TrimInPlace(AppendTo(set, p, HistoryPoint(a.status, a.responseTime,
                                                            a.statusCode, now + 1)), p)
    IN [grown EXCEPT !.objs[p].val.Uptime = CalcUptime(Elements(grown, grown.objs[p].h), @)]

\* mutant: the copy keeps the entry's History slice
CopyStatus_sharedHistory(hp, p) ==
    [hp EXCEPT !.objs = Append(@, [val |-> hp.objs[p].val, h |-> hp.objs[p].h])]

\* s := *status; s.History = make([]HistoryPoint, len(status.History));
\* copy(s.History, status.History): a new object and a new array of exactly
\* that length.  The pointer to the copy is Len(objs) of the result
CopyStatus(hp, p) ==
    LET h == hp.objs[p].h IN
    [hp EXCEPT !.arrs = Append(@, [data |-> Elements(hp, h), cap |-> h.len]),
               !.objs = Append(@, [val |-> hp.objs[p].val,
                                   h |-> [arr |-> Len(hp.arrs) + 1, off |-> 0,
                                          len |-> h.len]])]

\* memory is followed in this run
HeapFollowed == "writes" \in DOMAIN lim

NoHeap == [objs |-> << >>, arrs |-> << >>, entry |-> EmptyMap]

\* NewMonitor's allocations: one object per configured service in turn, its
\* History made with capacity maxHistory and the persisted points appended
NewHeap(svcs, db) ==
    LET persistedHistory == GetAllServiceCheckHistory(db)
        value(i) == IF svcs[i].Name \in DOMAIN persistedHistory
                    THEN RestoreStatus(svcs[i], persistedHistory[svcs[i].Name])
                    ELSE ColdStatus(svcs[i])
        last(n) == CHOOSE i \in 1..Len(svcs) :
                      /\ svcs[i].Name = n
                      /\ \A j \in (i + 1)..Len(svcs) : svcs[j].Name # n
    IN [objs |-> [i \in 1..Len(svcs) |->
                     [val |-> [value(i) EXCEPT !.History = << >>],
                      h |-> [arr |-> i, off |-> 0, len |-> Len(value(i).History)]]],
        arrs |-> [i \in 1..Len(svcs) |->
                     [data |-> value(i).History,
                      cap |-> IF Len(value(i).History) > maxHistory
                              THEN GrowCap(maxHistory) ELSE maxHistory]],
        entry |-> [n \in {svcs[i].Name : i \in 1..Len(svcs)} |-> last(n)]]

----------------------------------------------------------------------------
(* The probes, path by path.  An observation o is what the network does to *)
(* one probe: o.fail is the first operation that fails ("none" when all    *)
(* succeed, "timeout" for a read that ends in a net.Error timeout),        *)
(* o.responseTime the measured duration, o.reply whether what was read is  *)
(* what the probe looks for, o.code the HTTP status and o.hours the hours  *)
(* left on the certificate.  A probe is the sequence of updateStatus calls *)
(* its path makes.                                                         *)

Call(status, responseTime, statusCode, errMsg) ==
    [status |-> status, responseTime |-> responseTime, statusCode |-> statusCode,
     errMsg |-> errMsg]

\* err.Error() of the operation that failed
ErrorText(o) ==
    CASE o.fail = "request" -> "invalid method"
      [] o.fail = "dial" -> "connection refused"
      [] o.fail = "write" -> "broken pipe"
      [] o.fail = "read" -> "connection reset by peer"
      [] o.fail = "timeout" -> "i/o timeout"
      [] o.fail = "canceled" -> "context canceled"
      [] OTHER -> ""

\* strings.HasPrefix
HasPrefix(s, prefix) ==
    Len(s) >= Len(prefix) /\ SubSeq(s, 1, Len(prefix)) = prefix

\* strings.Contains
Contains(s, substr) ==
    \E i \in 1..(Len(s) - Len(substr) + 1) :
        SubSeq(s, i, i + Len(substr) - 1) = substr

\* strings.TrimSpace, the white space being the blank
RECURSIVE TrimSpace(_)
TrimSpace(s) ==
    IF s = "" THEN s
    ELSE IF SubSeq(s, 1, 1) = " " THEN TrimSpace(SubSeq(s, 2, Len(s)))
    ELSE IF SubSeq(s, Len(s), Len(s)) = " " THEN TrimSpace(SubSeq(s, 1, Len(s) - 1))
    ELSE s

\* string(buf[:n]) of a banner probe: the greeting of a server of the
\* service's protocol, the text of a server that is something else or
\* refuses (it names the token, but not where the protocol wants it), a
\* refusal in an 8-bit character set, or nothing
Banner(svc, o) ==
    CASE o.reply = "empty" -> ""
      [] o.reply = "garbled" -> "554 ferm# "
      [] o.reply = "match" ->
            (CASE svc.Type = "ssh" -> "SSH-2.0-OpenSSH_9.6 "
               [] svc.Type = "pop3" -> "+OK POP3 ready "
               [] svc.Type = "imap" -> "* OK IMAP4rev1 ready "
               [] OTHER -> "220 service ready ")
      [] OTHER ->
            (CASE svc.Type = "ssh" -> "no SSH- here "
               [] svc.Type = "pop3" -> "-ERR +OK later "
               [] svc.Type = "imap" -> "* BYE shutting down "
               [] OTHER -> "421 not 220 ")

checkHTTP(svc, o) ==
    IF o.fail = "request"
    THEN <<Call(StatusDown, 0, 0, ErrorText(o))>>
    ELSE IF o.fail \in {"dial", "write", "timeout", "canceled"}
    THEN <<Call(StatusDown, o.responseTime, 0, ErrorText(o))>>
    ELSE LET \* the body is looked at when one is expected and reading it did
             \* not fail; what was read holds the text when the reply does so
             \* within the first megabyte
             bodyMatch == IF svc.ExpectedBody # "" /\ o.fail # "read"
                          THEN o.reply = "match"
                          ELSE TRUE
             status == IF o.code = svc.ExpectedStatus /\ bodyMatch
                       THEN IF o.responseTime < 2000000 THEN StatusOperational
                            ELSE StatusDegraded
                       ELSE StatusDown
             errMsg == IF o.code = svc.ExpectedStatus /\ bodyMatch
                       THEN IF o.responseTime < 2000000 THEN ""
                            ELSE IF o.responseTime < 5000000 THEN "slow response time"
                            ELSE "very slow response time"
                       ELSE IF ~bodyMatch THEN "expected body not found"
                       ELSE "unexpected status code: " \o ToString(o.code)
         IN <<Call(status, o.responseTime, o.code, errMsg)>>

checkTCP(svc, o) ==
    IF o.fail \in {"dial"}
    THEN <<Call(StatusDown, o.responseTime, 0, ErrorText(o))>>
    ELSE LET status == IF o.responseTime < 1000000 THEN StatusOperational
                       ELSE StatusDegraded
             errMsg == IF o.responseTime < 1000000 THEN ""
                       ELSE IF o.responseTime < 3000000 THEN "slow connection"
                       ELSE "very slow connection"
         IN <<Call(status, o.responseTime, 0, errMsg)>>

checkICMP(svc, o) ==
    IF o.fail \in {"dial"}
    THEN <<Call(StatusDown, o.responseTime, 0, "ping failed")>>
    ELSE LET status == IF o.responseTime < 100000 THEN StatusOperational
                       ELSE StatusDegraded
             errMsg == IF o.responseTime < 100000 THEN ""
                       ELSE IF o.responseTime < 500000 THEN "high latency"
                       ELSE "very high latency"
         IN <<Call(status, o.responseTime, 0, errMsg)>>

checkDNS(svc, o) ==
    IF o.fail \in {"dial", "canceled"}
    THEN <<Call(StatusDown, o.responseTime, 0, ErrorText(o))>>
    ELSE LET status == IF o.responseTime < 100000 THEN StatusOperational
                       ELSE StatusDegraded
             errMsg == IF o.responseTime < 100000 THEN ""
                       ELSE IF o.responseTime < 500000 THEN "slow DNS resolution"
                       ELSE "very slow DNS resolution"
         IN <<Call(status, o.responseTime, 0, errMsg)>>

checkWebSocket(svc, o) ==
    IF o.fail \in {"dial"}
    THEN <<Call(StatusDown, o.responseTime, 0, ErrorText(o))>>
    ELSE LET status == IF o.responseTime < 1000000 THEN StatusOperational
                       ELSE StatusDegraded
             errMsg == IF o.responseTime < 1000000 THEN ""
                       ELSE IF o.responseTime < 3000000 THEN "slow connection"
                       ELSE "very slow connection"
         IN <<Call(status, o.responseTime, 0, errMsg)>>

\* mutant: a read that times out with no reply expected is not reported
checkUDP_silentTimeout(svc, o) ==
    IF o.fail = "dial"
    THEN <<Call(StatusDown, o.responseTime, 0, ErrorText(o))>>
    ELSE IF o.fail = "write"
    THEN <<Call(StatusDown, o.responseTime, 0, "write failed: " \o ErrorText(o))>>
    ELSE IF o.fail = "timeout" /\ svc.UDPExpected = ""
    THEN << >>
    ELSE LET unexpected == svc.UDPExpected # "" /\ o.reply # "match"
             status == IF o.fail = "timeout"
                       THEN IF svc.UDPExpected # "" THEN StatusDown
                            ELSE StatusOperational
                       ELSE IF o.fail = "read" THEN StatusDown
                       ELSE IF unexpected THEN StatusDown
                       ELSE IF o.responseTime < 500000 THEN StatusOperational
                       ELSE StatusDegraded
             errMsg == IF o.fail = "timeout"
                       THEN IF svc.UDPExpected # "" THEN "no response received"
                            ELSE ""
                       ELSE IF o.fail = "read" THEN "read error: " \o ErrorText(o)
                       ELSE IF unexpected THEN "unexpected response"
                       ELSE IF o.responseTime < 500000 THEN ""
                       ELSE IF o.responseTime < 2000000 THEN "slow response"
                       ELSE "very slow response"
         IN <<Call(status, o.responseTime, 0, errMsg)>>

\* the udp probe taking a failed read for silence when no reply is expected
checkUDP_readErrorTolerated(svc, o) ==
    IF o.fail = "dial"
    THEN <<Call(StatusDown, o.responseTime, 0, ErrorText(o))>>
    ELSE IF o.fail = "write"
    THEN <<Call(StatusDown, o.responseTime, 0, "write failed: " \o ErrorText(o))>>
    ELSE LET unexpected == svc.UDPExpected # "" /\ o.reply # "match"
             status == IF o.fail = "timeout"
                       THEN IF svc.UDPExpected # "" THEN StatusDown
                            ELSE StatusOperational
                       ELSE IF o.fail = "read" /\ svc.UDPExpected # "" THEN StatusDown
                       ELSE IF unexpected THEN StatusDown
                       ELSE IF o.responseTime < 500000 THEN StatusOperational
                       ELSE StatusDegraded
             errMsg == IF o.fail = "timeout"
                       THEN IF svc.UDPExpected # "" THEN "no response received"
                            ELSE ""
                       ELSE IF o.fail = "read" /\ svc.UDPExpected # ""
                       THEN "read error: " \o ErrorText(o)
                       ELSE IF unexpected THEN "unexpected response"
                       ELSE IF o.responseTime < 500000 THEN ""
                       ELSE IF o.responseTime < 2000000 THEN "slow response"
                       ELSE "very slow response"
         IN <<Call(status, o.responseTime, 0, errMsg)>>

checkUDP(svc, o) ==
    IF o.fail = "dial"
    THEN <<Call(StatusDown, o.responseTime, 0, ErrorText(o))>>
    ELSE IF o.fail = "write"
    THEN <<Call(StatusDown, o.responseTime, 0, "write failed: " \o ErrorText(o))>>
    ELSE LET unexpected == svc.UDPExpected # "" /\ o.reply # "match"
             status == IF o.fail = "timeout"
                       THEN IF svc.UDPExpected # "" THEN StatusDown
                            ELSE StatusOperational
                       ELSE IF o.fail = "read" THEN StatusDown
                       ELSE IF unexpected THEN StatusDown
                       ELSE IF o.responseTime < 500000 THEN StatusOperational
                       ELSE StatusDegraded
             errMsg == IF o.fail = "timeout"
                       THEN IF svc.UDPExpected # "" THEN "no response received"
                            ELSE ""
                       ELSE IF o.fail = "read" THEN "read error: " \o ErrorText(o)
                       ELSE IF unexpected THEN "unexpected response"
                       ELSE IF o.responseTime < 500000 THEN ""
                       ELSE IF o.responseTime < 2000000 THEN "slow response"
                       ELSE "very slow response"
         IN <<Call(status, o.responseTime, 0, errMsg)>>

checkGRPC(svc, o) ==
    IF o.fail \in {"dial"}
    THEN <<Call(StatusDown, o.responseTime, 0, ErrorText(o))>>
    ELSE LET status == IF o.responseTime < 500000 THEN StatusOperational
                       ELSE StatusDegraded
             errMsg == IF o.responseTime < 500000 THEN ""
                       ELSE IF o.responseTime < 2000000 THEN "slow connection"
                       ELSE "very slow connection"
         IN <<Call(status, o.responseTime, 0, errMsg)>>

\* the quic probe calling a reply slow from 500 ms on
checkQUIC_slowAtThreshold(svc, o) ==
    IF o.fail = "request"
    THEN <<Call(StatusDown, o.responseTime, 0,
                "DNS resolution failed: " \o ErrorText(o))>>
    ELSE IF o.fail = "dial"
    THEN <<Call(StatusDown, o.responseTime, 0, ErrorText(o))>>
    ELSE IF o.fail = "write"
    THEN <<Call(StatusDown, o.responseTime, 0, "write failed: " \o ErrorText(o))>>
    ELSE LET status == IF o.fail = "timeout" THEN StatusDegraded
                       ELSE IF o.fail = "read" THEN StatusDown
                       ELSE IF o.reply # "empty" THEN StatusOperational
                       ELSE StatusDown
             errMsg == IF o.fail = "timeout"
                       THEN "QUIC probe timeout (port may be open)"
                       ELSE IF o.fail = "read" THEN ErrorText(o)
                       ELSE IF o.reply = "match" THEN ""
                       ELSE IF o.reply # "empty" THEN "QUIC response received"
                       ELSE "empty response"
             slow == status = StatusOperational /\ o.responseTime >= 500000
         IN <<Call(IF slow THEN StatusDegraded ELSE status, o.responseTime, 0,
                   IF slow THEN "slow QUIC handshake" ELSE errMsg)>>

checkQUIC(svc, o) ==
    IF o.fail = "request"
    THEN <<Call(StatusDown, o.responseTime, 0,
                "DNS resolution failed: " \o ErrorText(o))>>
    ELSE IF o.fail = "dial"
    THEN <<Call(StatusDown, o.responseTime, 0, ErrorText(o))>>
    ELSE IF o.fail = "write"
    THEN <<Call(StatusDown, o.responseTime, 0, "write failed: " \o ErrorText(o))>>
    ELSE LET status == IF o.fail = "timeout" THEN StatusDegraded
                       ELSE IF o.fail = "read" THEN StatusDown
                       ELSE IF o.reply # "empty" THEN StatusOperational
                       ELSE StatusDown
             errMsg == IF o.fail = "timeout"
                       THEN "QUIC probe timeout (port may be open)"
                       ELSE IF o.fail = "read" THEN ErrorText(o)
                       ELSE IF o.reply = "match" THEN ""
                       ELSE IF o.reply # "empty" THEN "QUIC response received"
                       ELSE "empty response"
             slow == status = StatusOperational /\ o.responseTime > 500000
         IN <<Call(IF slow THEN StatusDegraded ELSE status, o.responseTime, 0,
                   IF slow THEN "slow QUIC handshake" ELSE errMsg)>>

checkSMTP(svc, o) ==
    IF o.fail = "dial"
    THEN <<Call(StatusDown, o.responseTime, 0, ErrorText(o))>>
    ELSE IF o.fail \in {"read", "timeout"}
    THEN <<Call(StatusDown, o.responseTime, 0, "failed to read SMTP banner")>>
    ELSE LET banner == Banner(svc, o)
             valid == HasPrefix(banner, "220")
             status == IF valid
                       THEN IF o.responseTime < 1000000 THEN StatusOperational
                            ELSE StatusDegraded
                       ELSE StatusDown
             errMsg == IF valid
                       THEN IF o.responseTime < 1000000 THEN ""
                            ELSE "slow SMTP response"
                       ELSE "unexpected SMTP response: " \o TrimSpace(banner)
             statusCode == IF valid THEN 220 ELSE 0
         IN <<Call(status, o.responseTime, statusCode, errMsg)>>

\* the ssh probe with the slow threshold of the other banner probes
checkSSH_oneSecond(svc, o) ==
    IF o.fail = "dial"
    THEN <<Call(StatusDown, o.responseTime, 0, ErrorText(o))>>
    ELSE IF o.fail \in {"read", "timeout"}
    THEN <<Call(StatusDown, o.responseTime, 0, "failed to read SSH banner")>>
    ELSE LET banner == Banner(svc, o)
             valid == HasPrefix(banner, "SSH-")
             status == IF valid
                       THEN IF o.responseTime < 1000000 THEN StatusOperational
                            ELSE StatusDegraded
                       ELSE StatusDown
             errMsg == IF valid
                       THEN IF o.responseTime < 1000000 THEN ""
                            ELSE "slow SSH response"
                       ELSE "invalid SSH banner"
             statusCode == IF valid THEN 0 ELSE 0
         IN <<Call(status, o.responseTime, statusCode, errMsg)>>

checkSSH(svc, o) ==
    IF o.fail = "dial"
    THEN <<Call(StatusDown, o.responseTime, 0, ErrorText(o))>>
    ELSE IF o.fail \in {"read", "timeout"}
    THEN <<Call(StatusDown, o.responseTime, 0, "failed to read SSH banner")>>
    ELSE LET banner == Banner(svc, o)
             valid == HasPrefix(banner, "SSH-")
             status == IF valid
                       THEN IF o.responseTime < 500000 THEN StatusOperational
                            ELSE StatusDegraded
                       ELSE StatusDown
             errMsg == IF valid
                       THEN IF o.responseTime < 500000 THEN ""
                            ELSE "slow SSH response"
                       ELSE "invalid SSH banner"
             statusCode == IF valid THEN 0 ELSE 0
         IN <<Call(status, o.responseTime, statusCode, errMsg)>>

\* int(d.Hours() / 24): the whole days in a number of hours, cut towards 0
WholeDays(hours) ==
    IF hours >= 0 THEN hours \div 24 ELSE 0 - ((0 - hours) \div 24)

\* the tls probe with a certificate in its seventh day still a warning
checkTLS_sevenIsWarning(svc, o) ==
    IF o.fail = "dial"
    THEN <<Call(StatusDown, o.responseTime, 0, "TLS error: " \o ErrorText(o))>>
    ELSE IF o.reply = "empty"
    THEN <<Call(StatusDown, o.responseTime, 0, "no certificates found")>>
    ELSE LET daysUntilExpiry == WholeDays(o.hours)
             warnDays == IF svc.TLSWarnDays = 0 THEN 30 ELSE svc.TLSWarnDays
             status == IF daysUntilExpiry <= 0 THEN StatusDown
                       ELSE IF daysUntilExpiry < 7 THEN StatusDown
                       ELSE IF daysUntilExpiry <= warnDays THEN StatusDegraded
                       ELSE StatusOperational
             errMsg == IF daysUntilExpiry <= 0 THEN "certificate expired"
                       ELSE IF daysUntilExpiry < 7 \/ daysUntilExpiry <= warnDays
                       THEN "certificate expires in " \o ToString(daysUntilExpiry)
                                \o " days"
                       ELSE ""
         IN <<Call(status, o.responseTime, daysUntilExpiry, errMsg)>>

checkTLS(svc, o) ==
    IF o.fail = "dial"
    THEN <<Call(StatusDown, o.responseTime, 0, "TLS error: " \o ErrorText(o))>>
    ELSE IF o.reply = "empty"
    THEN <<Call(StatusDown, o.responseTime, 0, "no certificates found")>>
    ELSE LET daysUntilExpiry == WholeDays(o.hours)
             warnDays == IF svc.TLSWarnDays = 0 THEN 30 ELSE svc.TLSWarnDays
             status == IF daysUntilExpiry <= 0 THEN StatusDown
                       ELSE IF daysUntilExpiry <= 7 THEN StatusDown
                       ELSE IF daysUntilExpiry <= warnDays THEN StatusDegraded
                       ELSE StatusOperational
             errMsg == IF daysUntilExpiry <= 0 THEN "certificate expired"
                       ELSE IF daysUntilExpiry <= 7 \/ daysUntilExpiry <= warnDays
                       THEN "certificate expires in " \o ToString(daysUntilExpiry)
                                \o " days"
                       ELSE ""
         IN <<Call(status, o.responseTime, daysUntilExpiry, errMsg)>>

checkPOP3(svc, o) ==
    IF o.fail = "dial"
    THEN <<Call(StatusDown, o.responseTime, 0, ErrorText(o))>>
    ELSE IF o.fail \in {"read", "timeout"}
    THEN <<Call(StatusDown, o.responseTime, 0, "failed to read POP3 banner")>>
    ELSE LET banner == Banner(svc, o)
             valid == HasPrefix(banner, "+OK")
             status == IF valid
                       THEN IF o.responseTime < 1000000 THEN StatusOperational
                            ELSE StatusDegraded
                       ELSE StatusDown
             errMsg == IF valid
                       THEN IF o.responseTime < 1000000 THEN ""
                            ELSE "slow POP3 response"
                       ELSE "invalid POP3 response"
             statusCode == IF valid THEN 0 ELSE 0
         IN <<Call(status, o.responseTime, statusCode, errMsg)>>

checkIMAP(svc, o) ==
    IF o.fail = "dial"
    THEN <<Call(StatusDown, o.responseTime, 0, ErrorText(o))>>
    ELSE IF o.fail \in {"read", "timeout"}
    THEN <<Call(StatusDown, o.responseTime, 0, "failed to read IMAP banner")>>
    ELSE LET banner == Banner(svc, o)
             valid == Contains(banner, "OK") \/ HasPrefix(banner, "* OK")
             status == IF valid
                       THEN IF o.responseTime < 1000000 THEN StatusOperational
                            ELSE StatusDegraded
                       ELSE StatusDown
             errMsg == IF valid
                       THEN IF o.responseTime < 1000000 THEN ""
                            ELSE "slow IMAP response"
                       ELSE "invalid IMAP response"
             statusCode == IF valid THEN 0 ELSE 0
         IN <<Call(status, o.responseTime, statusCode, errMsg)>>

checkFTP(svc, o) ==
    IF o.fail = "dial"
    THEN <<Call(StatusDown, o.responseTime, 0, ErrorText(o))>>
    ELSE IF o.fail \in {"read", "timeout"}
    THEN <<Call(StatusDown, o.responseTime, 0, "failed to read FTP banner")>>
    ELSE LET banner == Banner(svc, o)
             valid == HasPrefix(banner, "220")
             status == IF valid
                       THEN IF o.responseTime < 1000000 THEN StatusOperational
                            ELSE StatusDegraded
                       ELSE StatusDown
             errMsg == IF valid
                       THEN IF o.responseTime < 1000000 THEN ""
                            ELSE "slow FTP response"
                       ELSE "invalid FTP response"
             statusCode == IF valid THEN 220 ELSE 0
         IN <<Call(status, o.responseTime, statusCode, errMsg)>>

checkNTP(svc, o) ==
    IF o.fail = "dial"
    THEN <<Call(StatusDown, o.responseTime, 0, ErrorText(o))>>
    ELSE IF o.fail = "write"
    THEN <<Call(StatusDown, o.responseTime, 0, "NTP write failed")>>
    ELSE LET failed == o.fail \in {"read", "timeout"}
             status == IF failed THEN StatusDown
                       ELSE IF o.reply = "match"
                       THEN IF o.responseTime < 200000 THEN StatusOperational
                            ELSE StatusDegraded
                       ELSE StatusDown
             errMsg == IF failed THEN "NTP read failed"
                       ELSE IF o.reply = "match"
                       THEN IF o.responseTime < 200000 THEN ""
                            ELSE "slow NTP response"
                       ELSE "invalid NTP response"
         IN <<Call(status, o.responseTime, 0, errMsg)>>

checkLDAP(svc, o) ==
    IF o.fail \in {"dial"}
    THEN <<Call(StatusDown, o.responseTime, 0, ErrorText(o))>>
    ELSE LET status == IF o.responseTime < 500000 THEN StatusOperational
                       ELSE StatusDegraded
             errMsg == IF o.responseTime < 500000 THEN ""
                       ELSE "slow LDAP connection"
         IN <<Call(status, o.responseTime, 0, errMsg)>>

checkRedis(svc, o) ==
    IF o.fail = "dial"
    THEN <<Call(StatusDown, o.responseTime, 0, ErrorText(o))>>
    ELSE IF o.fail = "write"
    THEN <<Call(StatusDown, o.responseTime, 0, "Redis write failed")>>
    ELSE LET failed == o.fail \in {"read", "timeout"}
             status == IF failed THEN StatusDown
                       ELSE IF o.reply = "match"
                       THEN IF o.responseTime < 100000 THEN StatusOperational
                            ELSE StatusDegraded
                       ELSE StatusDown
             errMsg == IF failed THEN "Redis read failed"
                       ELSE IF o.reply = "match"
                       THEN IF o.responseTime < 100000 THEN ""
                            ELSE "slow Redis response"
                       ELSE "invalid Redis response"
         IN <<Call(status, o.responseTime, 0, errMsg)>>

checkMongoDB(svc, o) ==
    IF o.fail \in {"dial"}
    THEN <<Call(StatusDown, o.responseTime, 0, ErrorText(o))>>
    ELSE LET status == IF o.responseTime < 200000 THEN StatusOperational
                       ELSE StatusDegraded
             errMsg == IF o.responseTime < 200000 THEN ""
                       ELSE "slow MongoDB connection"
         IN <<Call(status, o.responseTime, 0, errMsg)>>

checkMySQL(svc, o) ==
    IF o.fail = "dial"
    THEN <<Call(StatusDown, o.responseTime, 0, ErrorText(o))>>
    ELSE LET failed == o.fail \in {"read", "timeout"}
             status == IF failed THEN StatusDown
                       ELSE IF o.reply = "match"
                       THEN IF o.responseTime < 200000 THEN StatusOperational
                            ELSE StatusDegraded
                       ELSE StatusDown
             errMsg == IF failed THEN "MySQL read failed"
                       ELSE IF o.reply = "match"
                       THEN IF o.responseTime < 200000 THEN ""
                            ELSE "slow MySQL response"
                       ELSE "invalid MySQL handshake"
         IN <<Call(status, o.responseTime, 0, errMsg)>>

checkPostgres(svc, o) ==
    IF o.fail \in {"dial"}
    THEN <<Call(StatusDown, o.responseTime, 0, ErrorText(o))>>
    ELSE LET status == IF o.responseTime < 200000 THEN StatusOperational
                       ELSE StatusDegraded
             errMsg == IF o.responseTime < 200000 THEN ""
                       ELSE "slow PostgreSQL connection"
         IN <<Call(status, o.responseTime, 0, errMsg)>>

\* the dispatch of the older copy of the monitor, which knows five types and
\* sends every other one to the http probe
checkService_fiveTypes(svc, o) ==
    CASE svc.Type \in {"http", ""} -> checkHTTP(svc, o)
      [] svc.Type = "tcp" -> checkTCP(svc, o)
      [] svc.Type = "icmp" -> checkICMP(svc, o)
      [] svc.Type = "dns" -> checkDNS(svc, o)
      [] svc.Type = "websocket" -> checkWebSocket(svc, o)
      [] OTHER -> checkHTTP(svc, o)

checkService(svc, o) ==
    CASE svc.Type \in {"http", ""} -> checkHTTP(svc, o)
      [] svc.Type = "tcp" -> checkTCP(svc, o)
      [] svc.Type = "udp" -> checkUDP(svc, o)
      [] svc.Type = "icmp" -> checkICMP(svc, o)
      [] svc.Type = "dns" -> checkDNS(svc, o)
      [] svc.Type = "websocket" -> checkWebSocket(svc, o)
      [] svc.Type = "grpc" -> checkGRPC(svc, o)
      [] svc.Type = "quic" -> checkQUIC(svc, o)
      [] svc.Type = "smtp" -> checkSMTP(svc, o)
      [] svc.Type = "ssh" -> checkSSH(svc, o)
      [] svc.Type = "tls" -> checkTLS(svc, o)
      [] svc.Type = "pop3" -> checkPOP3(svc, o)
      [] svc.Type = "imap" -> checkIMAP(svc, o)
      [] svc.Type = "ftp" -> checkFTP(svc, o)
      [] svc.Type = "ntp" -> checkNTP(svc, o)
      [] svc.Type = "ldap" -> checkLDAP(svc, o)
      [] svc.Type = "redis" -> checkRedis(svc, o)
      [] svc.Type = "mongodb" -> checkMongoDB(svc, o)
      [] svc.Type = "mysql" -> checkMySQL(svc, o)
      [] svc.Type = "postgres" -> checkPostgres(svc, o)
      [] OTHER -> checkHTTP(svc, o)

\* the check types of config.CheckType, and one the configuration does not
\* know (Load does not validate the type)
CheckTypes ==
    {"http", "tcp", "udp", "icmp", "dns", "websocket", "grpc", "quic", "smtp",
     "ssh", "tls", "pop3", "imap", "ftp", "ntp", "ldap", "redis", "mongodb",
     "mysql", "postgres", "carrier-pigeon"}

\* the twenty check types of config.CheckType
KnownTypes == CheckTypes \ {"carrier-pigeon"}

\* config.Service entry of the service called n, probed as type ty and
\* looking for the reply expected ("" for none), after Load's defaults
ProbedService(n, ty, expected) ==
    [Name |-> n, Group |-> "core", URL |-> n, Description |-> n,
     Type |-> ty, ExpectedStatus |-> 200, ExpectedBody |-> expected,
     UDPExpected |-> expected, TLSWarnDays |-> 0]

ResponseTimes == {50000, 1500000, 2500000, 6000000}

Observations ==
    [fail : {"none", "request", "dial", "write", "read", "timeout"},
     responseTime : ResponseTimes,
     reply : {"match", "mismatch", "empty"},
     code : {200, 503},
     hours : {12, 175, 490, 2160}]

\* the http probe reads at most the first megabyte of the body: a body
\* that holds the expected text only further on is read without it
LateBody ==
    [fail : {"none"}, responseTime : ResponseTimes, reply : {"late"},
     code : {200, 503}, hours : {2160}]

\* the response times at which the probe of the service changes its verdict
Thresholds(svc) ==
    CASE svc.Type \in {"quic", "ssh"} -> {500000}
      [] svc.Type \in {"smtp", "pop3", "imap", "ftp"} -> {1000000}
      [] svc.Type \in KnownTypes \ {"http"} -> {}
      [] OTHER -> {2000000, 5000000}

\* a reply that arrives exactly at a threshold
AtThreshold(svc) ==
    [fail : {"none"}, responseTime : Thresholds(svc), reply : {"match", "mismatch"},
     code : {200}, hours : {2160}]

\* the smtp probe puts the text of a greeting it rejects into its message:
\* a server may send bytes that are not UTF-8
Garbled(svc) ==
    [fail : {"none"}, responseTime : IF svc.Type = "smtp" THEN {50000} ELSE {},
     reply : {"garbled"}, code : {200}, hours : {2160}]

\* what the probe of the service can observe: only the http probe sees a
\* status code and only the tls probe a certificate
ObservationsOf(svc) ==
    LET seen == {o \in Observations :
                    /\ svc.Type \in KnownTypes \ {"http"} => o.code = 200
                    /\ svc.Type # "tls" => o.hours = 2160}
    IN IF svc.Type \in KnownTypes \ {"http"}
       THEN seen \cup AtThreshold(svc) \cup Garbled(svc)
       ELSE seen \cup AtThreshold(svc) \cup LateBody

\* the probes whose context derives from the monitor's: checkHTTP and
\* checkDNS call context.WithTimeout(m.ctx, svc.Timeout)
ContextDerived(svc) == svc.Type \notin KnownTypes \ {"http", "dns"}

\* the request or lookup returns the context's error
Canceled ==
    [fail : {"canceled"}, responseTime : {50000, 1500000}, reply : {"empty"},
     code : {200}, hours : {2160}]

----------------------------------------------------------------------------
(* The state after construction *)

Tasks == 1..Len(services)
Clients == 1..lim.clients

NoHistory(svcs) ==
    [checks |-> 0, updates |-> 0, restarts |-> 0, writeFailures |-> 0,
     subscribes |-> 0, unsubscribes |-> 0, receives |-> 0,
     inflight |-> [t \in 1..Len(svcs) |-> 0],
     lastUpdate |-> [name |-> "", args |-> NoArgs],
     published |-> << >>, since |-> << >>, reads |-> << >>, taken |-> << >>,
     handed |-> << >>, writes |-> 0, caught |-> {},
     panicked |-> FALSE]

\* the fields of a new Monitor other than the Status Store, and the
\* goroutines that are yet to run
FreshProcess(svcs, db) ==
    /\ mu = Unlocked
    /\ subMu = Unlocked
    /\ subscribers = << >>
    /\ chans = << >>
    /\ started = FALSE
    /\ ctxDone = FALSE
    /\ pc = [t \in 1..Len(svcs) |-> "idle"]
    /\ args = [t \in 1..Len(svcs) |-> NoArgs]
    /\ statusCopy = [t \in 1..Len(svcs) |-> ColdStatus(svcs[t])]
    /\ rangeSubs = [t \in 1..Len(svcs) |-> << >>]
    /\ rangeIdx = [t \in 1..Len(svcs) |-> 1]
    /\ tick = [t \in 1..Len(svcs) |-> "none"]
    /\ overall = StatusUnknown
    /\ rpc = "idle"
    /\ rarg = ""
    /\ snap = << >>
    /\ calls = [t \in 1..Len(svcs) |-> << >>]
    /\ heap = IF HeapFollowed THEN NewHeap(svcs, db) ELSE NoHeap

\* a fresh process: NewMonitor over the store, nothing started
Fresh(svcs, db) ==
    /\ statuses = NewMonitor(svcs, db)
    /\ FreshProcess(svcs, db)

\* no web server and no daily record take part in the run
NoWeb == [served |-> 0]
NoDaily == [bucket |-> [x \in {} |-> x]]

\* the monitor over the store, nothing started
InitMonitor(svcs, db, limits) ==
    /\ services = svcs
    /\ store = db
    /\ clock = 0
    /\ lim = limits
    /\ cpc = [c \in 1..limits.clients |-> "idle"]
    /\ cch = [c \in 1..limits.clients |-> 0]
    /\ hist = NoHistory(svcs)
    /\ Fresh(svcs, db)

InitWith(svcs, db, limits) ==
    /\ InitMonitor(svcs, db, limits)
    /\ web = NoWeb
    /\ daily = NoDaily

----------------------------------------------------------------------------
(* Scheduler: Start, Stop, monitorService, checkService *)

\* Start: one goroutine per configured service. Start has no guard of its
\* own; main calls it once per process, which is what ~started stands for
Start ==
    /\ ~started
    /\ started' = TRUE
    /\ pc' = [t \in Tasks |-> "initial"]
    /\ UNCHANGED <<services, statuses, store, clock, mu, subMu, subscribers, chans,
                   ctxDone, args, statusCopy, rangeSubs, rangeIdx, tick,
                   cpc, cch, overall, rpc, rarg, snap, calls, heap, lim, hist, web, daily>>

\* Stop: cancel the shared context
Stop ==
    /\ started
    /\ ~ctxDone
    /\ ctxDone' = TRUE
    /\ hist' = [hist EXCEPT !.caught = {t \in DOMAIN pc : pc[t] = "probe"}]
    /\ UNCHANGED <<services, statuses, store, clock, mu, subMu, subscribers, chans,
                   started, pc, args, statusCopy, rangeSubs, rangeIdx, tick,
                   cpc, cch, overall, rpc, rarg, snap, calls, heap, lim, web, daily>>

\* checkService is entered: the probe starts
BeginCheck(t) ==
    /\ pc' = [pc EXCEPT ![t] = "probe"]
    /\ hist' = [hist EXCEPT !.checks = @ + 1, !.inflight[t] = @ + 1]

\* mutant: the Status Store lock is taken before the probe starts
InitialCheck_locked(t) ==
    /\ pc[t] = "initial"
    /\ CanLock(mu)
    /\ mu' = Lock(mu, TaskId(t))
    /\ BeginCheck(t)
    /\ UNCHANGED <<services, statuses, store, clock, subMu, subscribers, chans,
                   started, ctxDone, args, statusCopy, rangeSubs, rangeIdx, tick,
                   cpc, cch, overall, rpc, rarg, snap, calls, heap, lim, web, daily>>

\* mutant: the task creates its ticker and waits for the first tick
InitialCheck_afterInterval(t) ==
    /\ pc[t] = "initial"
    /\ pc' = [pc EXCEPT ![t] = "select"]
    /\ tick' = [tick EXCEPT ![t] = "empty"]
    /\ UNCHANGED <<services, statuses, store, clock, mu, subMu, subscribers, chans,
                   started, ctxDone, args, statusCopy, rangeSubs, rangeIdx,
                   cpc, cch, overall, rpc, rarg, snap, calls, heap, lim, hist, web, daily>>

\* monitorService: "Initial check" (one per task, so it needs no bound)
InitialCheck(t) ==
    /\ pc[t] = "initial"
    /\ BeginCheck(t)
    /\ UNCHANGED <<services, statuses, store, clock, mu, subMu, subscribers, chans,
                   started, ctxDone, args, statusCopy, rangeSubs, rangeIdx, tick,
                   cpc, cch, overall, rpc, rarg, snap, calls, heap, lim, web, daily>>

\* the runtime delivers a tick into ticker.C (capacity 1; a tick that finds
\* the channel full is dropped)
Tick(t) ==
    /\ tick[t] = "empty"
    /\ hist.checks < lim.checks
    /\ tick' = [tick EXCEPT ![t] = "full"]
    /\ UNCHANGED <<services, statuses, store, clock, mu, subMu, subscribers, chans,
                   started, ctxDone, pc, args, statusCopy, rangeSubs, rangeIdx,
                   cpc, cch, overall, rpc, rarg, snap, calls, heap, lim, hist, web, daily>>

\* mutant: a tick starts the next check although the last has not returned
SelectTick_overlapping(t) ==
    /\ pc[t] \in {"select", "probe"}
    /\ tick[t] = "full"
    /\ hist.checks < lim.checks
    /\ tick' = [tick EXCEPT ![t] = "empty"]
    /\ BeginCheck(t)
    /\ UNCHANGED <<services, statuses, store, clock, mu, subMu, subscribers, chans,
                   started, ctxDone, args, statusCopy, rangeSubs, rangeIdx,
                   cpc, cch, overall, rpc, rarg, snap, calls, heap, lim, web, daily>>

\* select: case <-ticker.C
SelectTick(t) ==
    /\ pc[t] = "select"
    /\ tick[t] = "full"
    /\ hist.checks < lim.checks
    /\ tick' = [tick EXCEPT ![t] = "empty"]
    /\ BeginCheck(t)
    /\ UNCHANGED <<services, statuses, store, clock, mu, subMu, subscribers, chans,
                   started, ctxDone, args, statusCopy, rangeSubs, rangeIdx,
                   cpc, cch, overall, rpc, rarg, snap, calls, heap, lim, web, daily>>

\* mutant: the Done case leaves the select, not the loop around it
SelectDone_staysInLoop(t) ==
    /\ pc[t] = "select"
    /\ ctxDone
    /\ UNCHANGED vars

\* select: case <-m.ctx.Done(); the deferred ticker.Stop runs
SelectDone(t) ==
    /\ pc[t] = "select"
    /\ ctxDone
    /\ pc' = [pc EXCEPT ![t] = "done"]
    /\ tick' = [tick EXCEPT ![t] = "stopped"]
    /\ UNCHANGED <<services, statuses, store, clock, mu, subMu, subscribers, chans,
                   started, ctxDone, args, statusCopy, rangeSubs, rangeIdx,
                   cpc, cch, overall, rpc, rarg, snap, calls, heap, lim, hist, web, daily>>

\* the probe returns and calls updateStatus with its outcome
ProbeReturn(t) ==
    /\ pc[t] = "probe"
    /\ \E o \in (IF hist.checks <= lim.vary THEN ProbeOutcomes ELSE {Healthy}) :
          args' = [args EXCEPT ![t] = o]
    /\ pc' = [pc EXCEPT ![t] = "upd_lock"]
    /\ hist' = [hist EXCEPT !.caught = @ \ {t}]
    /\ UNCHANGED <<services, statuses, store, clock, mu, subMu, subscribers, chans,
                   started, ctxDone, statusCopy, rangeSubs, rangeIdx, tick,
                   cpc, cch, overall, rpc, rarg, snap, calls, heap, lim, web, daily>>

\* what the probe of task t can observe now.  Once the monitor's context is
\* cancelled a probe whose context derives from it gets the context's error:
\* at once when it starts after the cancellation, and in place of the answer
\* it was waiting for when the cancellation caught it in flight (unless the
\* answer had just arrived)
ObservationsAt(t) ==
    IF ctxDone /\ ContextDerived(services[t])
    THEN IF t \in hist.caught
         THEN ObservationsOf(services[t]) \cup Canceled
         ELSE Canceled
    ELSE ObservationsOf(services[t])

\* checkService: the probe of the service's type runs down one of its paths
\* to the first updateStatus call; a path without a call returns
CheckService(t) ==
    /\ pc[t] = "probe"
    /\ \E o \in ObservationsAt(t) :
          LET path == checkService(services[t], o) IN
          IF path = << >>
          THEN /\ pc' = [pc EXCEPT ![t] = "select"]
               /\ tick' = [tick EXCEPT ![t] = IF @ = "none" THEN "empty" ELSE @]
               /\ hist' = [hist EXCEPT !.inflight[t] = @ - 1, !.caught = @ \ {t}]
               /\ UNCHANGED <<args, calls>>
          ELSE /\ args' = [args EXCEPT ![t] = Head(path)]
               /\ calls' = [calls EXCEPT ![t] = Tail(path)]
               /\ pc' = [pc EXCEPT ![t] = "upd_lock"]
               /\ hist' = [hist EXCEPT !.caught = @ \ {t}]
               /\ UNCHANGED tick
    /\ UNCHANGED <<services, statuses, store, clock, mu, subMu, subscribers, chans,
                   started, ctxDone, statusCopy, rangeSubs, rangeIdx,
                   cpc, cch, overall, rpc, rarg, snap, heap, lim, web, daily>>

\* checkService returns to monitorService; after the initial check the
\* ticker is created
EndCheck(t) ==
    /\ pc' = [pc EXCEPT ![t] = "select"]
    /\ tick' = [tick EXCEPT ![t] = IF @ = "none" THEN "empty" ELSE @]

\* updateStatus returns into the probe: the probe goes on to the next call
\* of its path, or returns when the path has none left
ReturnToProbe(t) ==
    IF calls[t] = << >>
    THEN /\ EndCheck(t)
         /\ hist' = [hist EXCEPT !.inflight[t] = @ - 1]
         /\ UNCHANGED <<args, calls>>
    ELSE /\ args' = [args EXCEPT ![t] = Head(calls[t])]
         /\ calls' = [calls EXCEPT ![t] = Tail(@)]
         /\ pc' = [pc EXCEPT ![t] = "upd_lock"]
         /\ UNCHANGED <<tick, hist>>

----------------------------------------------------------------------------
(* updateStatus, step by step *)

\* mutant: updateStatus goes on without the lock
UpdLock_none(t) ==
    /\ pc[t] = "upd_lock"
    /\ pc' = [pc EXCEPT ![t] = "upd_mutate"]
    /\ UNCHANGED <<services, statuses, store, clock, mu, subMu, subscribers, chans,
                   started, ctxDone, args, statusCopy, rangeSubs, rangeIdx, tick,
                   cpc, cch, overall, rpc, rarg, snap, calls, heap, lim, hist, web, daily>>

\* m.mu.Lock()
UpdLock(t) ==
    /\ pc[t] = "upd_lock"
    /\ CanLock(mu)
    /\ mu' = Lock(mu, TaskId(t))
    /\ pc' = [pc EXCEPT ![t] = "upd_mutate"]
    /\ UNCHANGED <<services, statuses, store, clock, subMu, subscribers, chans,
                   started, ctxDone, args, statusCopy, rangeSubs, rangeIdx, tick,
                   cpc, cch, overall, rpc, rarg, snap, calls, heap, lim, hist, web, daily>>

\* mutant: a name that is not in the map gets an entry and the update goes on
UpdMutate_createsEntry(t) ==
    LET name == services[t].Name
        st == IF name \in DOMAIN statuses THEN statuses[name]
              ELSE ColdStatus(services[t])
    IN
    /\ pc[t] = "upd_mutate"
    /\ statuses' = (name :> ApplyUpdate(st, args[t], clock + 1)) @@ statuses
    /\ clock' = clock + 2
    /\ hist' = [hist EXCEPT
                  !.updates = @ + 1,
                  !.lastUpdate = [name |-> name, args |-> args[t]]]
    /\ pc' = [pc EXCEPT ![t] = "upd_persist"]
    /\ UNCHANGED <<mu, tick, args, calls>>
    /\ UNCHANGED <<services, store, subMu, subscribers, chans,
                   started, ctxDone, statusCopy, rangeSubs, rangeIdx,
                   cpc, cch, overall, rpc, rarg, snap, heap, lim, web, daily>>

\* the lookup; then "Update status", "Add to history", "Trim history if
\* needed", "Calculate uptime from history"
UpdMutate(t) ==
    LET name == services[t].Name IN
    /\ pc[t] = "upd_mutate"
    /\ IF name \in DOMAIN statuses
       THEN /\ statuses' = [statuses EXCEPT
                               ![name] = ApplyUpdate(@, args[t], clock + 1)]
            /\ clock' = clock + 2
            /\ hist' = [hist EXCEPT
                          !.updates = @ + 1,
                          !.lastUpdate = [name |-> name, args |-> args[t]]]
            /\ pc' = [pc EXCEPT ![t] = "upd_persist"]
            /\ UNCHANGED <<mu, tick, args, calls>>
       ELSE /\ mu' = Unlock(mu, TaskId(t))
            /\ ReturnToProbe(t)
            /\ UNCHANGED <<statuses, clock>>
    /\ UNCHANGED <<services, store, subMu, subscribers, chans,
                   started, ctxDone, statusCopy, rangeSubs, rangeIdx,
                   cpc, cch, overall, rpc, rarg, snap, heap, lim, web, daily>>

\* The same writes one at a time, for runs that look at the store between
\* them.  The lookup and "Update status"
UpdFields(t) ==
    LET name == services[t].Name IN
    /\ pc[t] = "upd_mutate"
    /\ IF name \in DOMAIN statuses
       THEN /\ statuses' = [statuses EXCEPT
                               ![name] = SetFields(@, args[t], clock + 1)]
            /\ clock' = clock + 1
            /\ pc' = [pc EXCEPT ![t] = "upd_history"]
            /\ UNCHANGED <<mu, tick, hist, args, calls>>
       ELSE /\ mu' = Unlock(mu, TaskId(t))
            /\ ReturnToProbe(t)
            /\ UNCHANGED <<statuses, clock>>
    /\ UNCHANGED <<services, store, subMu, subscribers, chans,
                   started, ctxDone, statusCopy, rangeSubs, rangeIdx,
                   cpc, cch, overall, rpc, rarg, snap, heap, lim, web, daily>>

\* mutant: the write to the database comes before the uptime is calculated
UpdHistory_thenPersist(t) ==
    /\ pc[t] = "upd_history"
    /\ statuses' = [statuses EXCEPT
                       ![services[t].Name] = AddPoint(@, args[t], clock + 1)]
    /\ clock' = clock + 1
    /\ pc' = [pc EXCEPT ![t] = "upd_persist"]
    /\ UNCHANGED <<services, store, mu, subMu, subscribers, chans,
                   started, ctxDone, args, statusCopy, rangeSubs, rangeIdx, tick,
                   cpc, cch, overall, rpc, rarg, snap, calls, heap, lim, hist, web, daily>>

\* "Add to history", "Trim history if needed"
UpdHistory(t) ==
    /\ pc[t] = "upd_history"
    /\ statuses' = [statuses EXCEPT
                       ![services[t].Name] = AddPoint(@, args[t], clock + 1)]
    /\ clock' = clock + 1
    /\ pc' = [pc EXCEPT ![t] = "upd_uptime"]
    /\ UNCHANGED <<services, store, mu, subMu, subscribers, chans,
                   started, ctxDone, args, statusCopy, rangeSubs, rangeIdx, tick,
                   cpc, cch, overall, rpc, rarg, snap, calls, heap, lim, hist, web, daily>>

\* "Calculate uptime from history"
UpdUptime(t) ==
    /\ pc[t] = "upd_uptime"
    /\ statuses' = [statuses EXCEPT ![services[t].Name] = SetUptime(@)]
    /\ hist' = [hist EXCEPT
                  !.updates = @ + 1,
                  !.lastUpdate = [name |-> services[t].Name, args |-> args[t]]]
    /\ pc' = [pc EXCEPT ![t] = "upd_persist"]
    /\ UNCHANGED <<services, store, clock, mu, subMu, subscribers, chans,
                   started, ctxDone, args, statusCopy, rangeSubs, rangeIdx, tick,
                   cpc, cch, overall, rpc, rarg, snap, calls, heap, lim, web, daily>>

\* "Persist to storage": the write commits
UpdPersist(t) ==
    LET st == statuses[services[t].Name] IN
    /\ pc[t] = "upd_persist"
    /\ store' = SaveServiceCheckHistory(store, st.Name, CheckPoints(st.History),
                                        st.Uptime, st.LastCheck, st.ErrorMessage)
    /\ pc' = [pc EXCEPT ![t] = "upd_copy"]
    /\ UNCHANGED <<services, statuses, clock, mu, subMu, subscribers, chans,
                   started, ctxDone, args, statusCopy, rangeSubs, rangeIdx, tick,
                   cpc, cch, overall, rpc, rarg, snap, calls, heap, lim, hist, web, daily>>

\* mutant: a failed write ends updateStatus
UpdPersistFail_gaveUp(t) ==
    /\ pc[t] = "upd_persist"
    /\ hist.writeFailures < lim.writeFailures
    /\ hist' = [hist EXCEPT !.writeFailures = @ + 1, !.inflight[t] = @ - 1]
    /\ mu' = Unlock(mu, TaskId(t))
    /\ EndCheck(t)
    /\ UNCHANGED <<services, statuses, store, clock, subMu, subscribers, chans,
                   started, ctxDone, args, statusCopy, rangeSubs, rangeIdx,
                   cpc, cch, overall, rpc, rarg, snap, calls, heap, lim, web, daily>>

\* "Persist to storage": db.Update fails; the error is dropped
UpdPersistFail(t) ==
    /\ pc[t] = "upd_persist"
    /\ hist.writeFailures < lim.writeFailures
    /\ hist' = [hist EXCEPT !.writeFailures = @ + 1]
    /\ pc' = [pc EXCEPT ![t] = "upd_copy"]
    /\ UNCHANGED <<services, statuses, store, clock, mu, subMu, subscribers, chans,
                   started, ctxDone, args, statusCopy, rangeSubs, rangeIdx, tick,
                   cpc, cch, overall, rpc, rarg, snap, calls, heap, lim, web, daily>>

\* mutant: the lock is kept while the subscribers are notified
UpdCopyUnlock_stillLocked(t) ==
    /\ pc[t] = "upd_copy"
    /\ statusCopy' = [statusCopy EXCEPT ![t] = statuses[services[t].Name]]
    /\ pc' = [pc EXCEPT ![t] = "ntf_rlock"]
    /\ UNCHANGED <<services, statuses, store, clock, mu, subMu, subscribers, chans,
                   started, ctxDone, args, rangeSubs, rangeIdx, tick,
                   cpc, cch, overall, rpc, rarg, snap, calls, heap, lim, hist, web, daily>>

\* "Create copy for notification"; m.mu.Unlock()
UpdCopyUnlock(t) ==
    /\ pc[t] = "upd_copy"
    /\ statusCopy' = [statusCopy EXCEPT ![t] = statuses[services[t].Name]]
    /\ mu' = Unlock(mu, TaskId(t))
    /\ pc' = [pc EXCEPT ![t] = "ntf_rlock"]
    /\ UNCHANGED <<services, statuses, store, clock, subMu, subscribers, chans,
                   started, ctxDone, args, rangeSubs, rangeIdx, tick,
                   cpc, cch, overall, rpc, rarg, snap, calls, heap, lim, hist, web, daily>>

----------------------------------------------------------------------------
(* notifySubscribers, step by step *)

\* mutant: the range over m.subscribers starts without the read lock
NotifyRLock_unlocked(t) ==
    /\ pc[t] = "ntf_rlock"
    /\ rangeSubs' = [rangeSubs EXCEPT ![t] = subscribers]
    /\ rangeIdx' = [rangeIdx EXCEPT ![t] = 1]
    /\ pc' = [pc EXCEPT ![t] = "ntf_send"]
    /\ hist' = [hist EXCEPT !.published =
                    IF chans = << >> THEN @ ELSE Append(@, Ref(statusCopy[t]))]
    /\ UNCHANGED <<services, statuses, store, clock, mu, subMu, subscribers, chans,
                   started, ctxDone, args, statusCopy, tick,
                   cpc, cch, overall, rpc, rarg, snap, calls, heap, lim, web, daily>>

\* m.subMu.RLock(); the range expression m.subscribers is evaluated; the
\* record of publications begins once a channel has been made
NotifyRLock(t) ==
    /\ pc[t] = "ntf_rlock"
    /\ CanRLock(subMu)
    /\ subMu' = RLock(subMu, TaskId(t))
    /\ rangeSubs' = [rangeSubs EXCEPT ![t] = subscribers]
    /\ rangeIdx' = [rangeIdx EXCEPT ![t] = 1]
    /\ pc' = [pc EXCEPT ![t] = "ntf_send"]
    /\ hist' = [hist EXCEPT !.published =
                    IF chans = << >> THEN @ ELSE Append(@, Ref(statusCopy[t]))]
    /\ UNCHANGED <<services, statuses, store, clock, mu, subscribers, chans,
                   started, ctxDone, args, statusCopy, tick,
                   cpc, cch, overall, rpc, rarg, snap, calls, heap, lim, web, daily>>

\* the deferred m.subMu.RUnlock() once the range is exhausted; updateStatus
\* and checkService return
NotifyRUnlock(t) ==
    /\ pc[t] = "ntf_send"
    /\ rangeIdx[t] > Len(rangeSubs[t])
    /\ subMu' = RUnlock(subMu, TaskId(t))
    /\ ReturnToProbe(t)
    /\ UNCHANGED <<services, statuses, store, clock, mu, subscribers, chans,
                   started, ctxDone, statusCopy, rangeSubs, rangeIdx,
                   cpc, cch, overall, rpc, rarg, snap, heap, lim, web, daily>>

\* mutant: a plain send, ch <- status, which waits for room
NotifySend_blocking(t) ==
    LET ch == rangeSubs[t][rangeIdx[t]] IN
    /\ pc[t] = "ntf_send"
    /\ rangeIdx[t] <= Len(rangeSubs[t])
    /\ ~chans[ch].closed
    /\ Len(chans[ch].buf) < subscriberBuffer
    /\ chans' = [chans EXCEPT ![ch].buf = Append(@, Ref(statusCopy[t]))]
    /\ rangeIdx' = [rangeIdx EXCEPT ![t] = @ + 1]
    /\ UNCHANGED <<services, statuses, store, clock, mu, subMu, subscribers,
                   started, ctxDone, pc, args, statusCopy, rangeSubs, tick,
                   cpc, cch, overall, rpc, rarg, snap, calls, heap, lim, hist, web, daily>>

\* mutant: the loop ends at the first subscriber whose buffer is full
NotifySend_stopAtFull(t) ==
    LET ch == rangeSubs[t][rangeIdx[t]] IN
    /\ pc[t] = "ntf_send"
    /\ rangeIdx[t] <= Len(rangeSubs[t])
    /\ ~chans[ch].closed
    /\ chans' = [chans EXCEPT ![ch] = TrySend(@, Ref(statusCopy[t]))]
    /\ rangeIdx' = [rangeIdx EXCEPT ![t] =
                      IF Len(chans[ch].buf) < subscriberBuffer
                      THEN @ + 1 ELSE Len(rangeSubs[t]) + 1]
    /\ UNCHANGED <<services, statuses, store, clock, mu, subMu, subscribers,
                   started, ctxDone, pc, args, statusCopy, rangeSubs, tick,
                   cpc, cch, overall, rpc, rarg, snap, calls, heap, lim, hist, web, daily>>

\* one iteration of the range: the non-blocking send to the next subscriber;
\* a send on a closed channel panics
NotifySend(t) ==
    LET ch == rangeSubs[t][rangeIdx[t]] IN
    /\ pc[t] = "ntf_send"
    /\ rangeIdx[t] <= Len(rangeSubs[t])
    /\ IF chans[ch].closed
       THEN /\ hist' = [hist EXCEPT !.panicked = TRUE]
            /\ pc' = [pc EXCEPT ![t] = "panic"]
            /\ UNCHANGED <<chans, rangeIdx>>
       ELSE /\ chans' = [chans EXCEPT ![ch] = TrySend(@, Ref(statusCopy[t]))]
            /\ rangeIdx' = [rangeIdx EXCEPT ![t] = @ + 1]
            /\ UNCHANGED <<pc, hist>>
    /\ UNCHANGED <<services, statuses, store, clock, mu, subMu, subscribers,
                   started, ctxDone, args, statusCopy, rangeSubs, tick,
                   cpc, cch, overall, rpc, rarg, snap, calls, heap, lim, web, daily>>

----------------------------------------------------------------------------
(* Subscribe and Unsubscribe, called by clients of the monitor; a client    *)
(* takes messages from the channel it subscribed                            *)

\* make(chan *ServiceStatus, 100)
NewChan == [buf |-> << >>, closed |-> FALSE]

\* ch := make(...); m.subMu.Lock()
SubscribeLock(c) ==
    /\ cpc[c] = "idle"
    /\ hist.subscribes < lim.subscribes
    /\ hist.checks < lim.subscribeBy
    /\ CanLock(subMu)
    /\ chans' = Append(chans, NewChan)
    /\ cch' = [cch EXCEPT ![c] = Len(chans) + 1]
    /\ subMu' = Lock(subMu, ClientId(c))
    /\ cpc' = [cpc EXCEPT ![c] = "sub_append"]
    /\ hist' = [hist EXCEPT !.subscribes = @ + 1,
                            !.since = Append(@, 0),
                            !.taken = Append(@, << >>),
                            !.reads = Append(@, 0)]
    /\ UNCHANGED <<services, statuses, store, clock, mu, subscribers,
                   started, ctxDone, pc, args, statusCopy, rangeSubs, rangeIdx, tick,
                   overall, rpc, rarg, snap, calls, heap, lim, web, daily>>

\* m.subscribers = append(m.subscribers, ch); m.subMu.Unlock(); return ch
SubscribeAppend(c) ==
    /\ cpc[c] = "sub_append"
    /\ subscribers' = Append(subscribers, cch[c])
    /\ subMu' = Unlock(subMu, ClientId(c))
    /\ cpc' = [cpc EXCEPT ![c] = "subscribed"]
    /\ hist' = [hist EXCEPT !.since[cch[c]] = Len(hist.published)]
    /\ UNCHANGED <<services, statuses, store, clock, mu, chans,
                   started, ctxDone, pc, args, statusCopy, rangeSubs, rangeIdx, tick,
                   cch, overall, rpc, rarg, snap, calls, heap, lim, web, daily>>

\* the client receives the oldest message of its channel
Receive(c) ==
    /\ cpc[c] \in {"subscribed", "unsubscribed"}
    /\ hist.receives < lim.receives
    /\ chans[cch[c]].buf # << >>
    /\ chans' = [chans EXCEPT ![cch[c]].buf = Tail(@)]
    /\ hist' = [hist EXCEPT !.receives = @ + 1, !.reads[cch[c]] = @ + 1,
                            !.taken[cch[c]] = Append(@, Head(chans[cch[c]].buf))]
    /\ UNCHANGED <<services, statuses, store, clock, mu, subMu, subscribers,
                   started, ctxDone, pc, args, statusCopy, rangeSubs, rangeIdx, tick,
                   cpc, cch, overall, rpc, rarg, snap, calls, heap, lim, web, daily>>

\* index of the first element of s equal to x, 0 if there is none
IndexOf(s, x) ==
    IF \E i \in 1..Len(s) : s[i] = x
    THEN CHOOSE i \in 1..Len(s) : s[i] = x /\ \A j \in 1..(i - 1) : s[j] # x
    ELSE 0

\* append(s[:i], s[i+1:]...), i counted from 1
RemoveAt(s, i) == SubSeq(s, 1, i - 1) \o SubSeq(s, i + 1, Len(s))

\* Unsubscribe(ch) is called with the client's channel: m.subMu.Lock()
UnsubscribeLock(c) ==
    /\ cpc[c] \in {"subscribed", "unsubscribed"}
    /\ hist.unsubscribes < lim.unsubscribes
    /\ CanLock(subMu)
    /\ subMu' = Lock(subMu, ClientId(c))
    /\ cpc' = [cpc EXCEPT ![c] = "unsub_remove"]
    /\ hist' = [hist EXCEPT !.unsubscribes = @ + 1]
    /\ UNCHANGED <<services, statuses, store, clock, mu, subscribers, chans,
                   started, ctxDone, pc, args, statusCopy, rangeSubs, rangeIdx, tick,
                   cch, overall, rpc, rarg, snap, calls, heap, lim, web, daily>>

\* mutant: the channel is closed whether or not it was found
UnsubscribeRemove_closesAnyway(c) ==
    LET i == IndexOf(subscribers, cch[c]) IN
    /\ cpc[c] = "unsub_remove"
    /\ subscribers' = IF i > 0 THEN RemoveAt(subscribers, i) ELSE subscribers
    /\ chans' = [chans EXCEPT ![cch[c]].closed = TRUE]
    /\ hist' = [hist EXCEPT !.panicked = @ \/ chans[cch[c]].closed]
    /\ subMu' = Unlock(subMu, ClientId(c))
    /\ cpc' = [cpc EXCEPT ![c] = "unsubscribed"]
    /\ UNCHANGED <<services, statuses, store, clock, mu,
                   started, ctxDone, pc, args, statusCopy, rangeSubs, rangeIdx, tick,
                   cch, overall, rpc, rarg, snap, calls, heap, lim, web, daily>>

\* the search; on a match the channel is removed and closed (closing a
\* closed channel panics); the deferred m.subMu.Unlock()
UnsubscribeRemove(c) ==
    LET i == IndexOf(subscribers, cch[c]) IN
    /\ cpc[c] = "unsub_remove"
    /\ IF i > 0
       THEN /\ subscribers' = RemoveAt(subscribers, i)
            /\ chans' = [chans EXCEPT ![cch[c]].closed = TRUE]
            /\ hist' = [hist EXCEPT !.panicked = @ \/ chans[cch[c]].closed]
       ELSE UNCHANGED <<subscribers, chans, hist>>
    /\ subMu' = Unlock(subMu, ClientId(c))
    /\ cpc' = [cpc EXCEPT ![c] = "unsubscribed"]
    /\ UNCHANGED <<services, statuses, store, clock, mu,
                   started, ctxDone, pc, args, statusCopy, rangeSubs, rangeIdx, tick,
                   cch, overall, rpc, rarg, snap, calls, heap, lim, web, daily>>

----------------------------------------------------------------------------
(* The process is restarted over the same store and configuration *)

\* the latest clock reading the store holds
LastReading(db) ==
    LET readings == {0} \cup {db[k].last_check : k \in DOMAIN db}
                        \cup UNION {{db[k].history[i].timestamp :
                                        i \in 1..Len(db[k].history)} : k \in DOMAIN db}
    IN CHOOSE r \in readings : \A q \in readings : q <= r

\* the process ends at any point and a new one is constructed; what the old
\* process had not stored is lost, and the logical clock resumes from the
\* last stored reading
Restart ==
    /\ hist.restarts < lim.restarts
    /\ hist' = [hist EXCEPT !.restarts = @ + 1,
                            !.inflight = [t \in Tasks |-> 0],
                            !.published = << >>, !.since = << >>,
                            !.reads = << >>, !.taken = << >>,
                            !.handed = << >>]
    /\ cpc' = [c \in Clients |-> "idle"]
    /\ cch' = [c \in Clients |-> 0]
    /\ statuses' = NewMonitor(services, store)
    /\ mu' = Unlocked
    /\ subMu' = Unlocked
    /\ subscribers' = << >>
    /\ chans' = << >>
    /\ started' = FALSE
    /\ ctxDone' = FALSE
    /\ pc' = [t \in Tasks |-> "idle"]
    /\ args' = [t \in Tasks |-> NoArgs]
    /\ statusCopy' = [t \in Tasks |-> ColdStatus(services[t])]
    /\ rangeSubs' = [t \in Tasks |-> << >>]
    /\ rangeIdx' = [t \in Tasks |-> 1]
    /\ tick' = [t \in Tasks |-> "none"]
    /\ overall' = StatusUnknown
    /\ rpc' = "idle"
    /\ rarg' = ""
    /\ snap' = << >>
    /\ calls' = [t \in Tasks |-> << >>]
    /\ heap' = IF HeapFollowed THEN NewHeap(services, store) ELSE NoHeap
    /\ clock' = LastReading(store)
    /\ UNCHANGED <<services, store, lim, web, daily>>

----------------------------------------------------------------------------
(* History run: one service checked until its history has passed maxHistory *)

NoClients ==
    [clients |-> 0, subscribes |-> 0, subscribeBy |-> 0, unsubscribes |-> 0,
     receives |-> 0]

InitHistory ==
    InitWith(<<Service(ServiceNames[1])>>, EmptyMap,
             [checks |-> MaxChecksHistory, vary |-> MaxVarying,
              restarts |-> MaxRestarts, writeFailures |-> 0]
             @@ NoClients)

NextHistory ==
    \/ Start
    \/ Restart
    \/ \E t \in Tasks : InitialCheck(t)
    \/ \E t \in Tasks : Tick(t)
    \/ \E t \in Tasks : SelectTick(t)
    \/ \E t \in Tasks : ProbeReturn(t)
    \/ \E t \in Tasks : UpdLock(t)
    \/ \E t \in Tasks : UpdMutate(t)
    \/ \E t \in Tasks : UpdPersist(t)
    \/ \E t \in Tasks : UpdCopyUnlock(t)
    \/ \E t \in Tasks : NotifyRLock(t)
    \/ \E t \in Tasks : NotifyRUnlock(t)

SpecHistory == InitHistory /\ [][NextHistory]_vars

----------------------------------------------------------------------------
(* A reader calls GetOverallStatus *)

\* m.mu.RLock()
OverallRLock ==
    /\ rpc = "idle"
    /\ CanRLock(mu)
    /\ mu' = RLock(mu, ReaderId)
    /\ rpc' = "overall"
    /\ UNCHANGED <<services, statuses, store, clock, subMu, subscribers, chans,
                   started, ctxDone, pc, args, statusCopy, rangeSubs, rangeIdx, tick,
                   cpc, cch, overall, rarg, snap, calls, heap, lim, hist, web, daily>>

\* the counting and the policy; the deferred m.mu.RUnlock()
OverallReturn ==
    /\ rpc = "overall"
    /\ overall' = GetOverallStatus(statuses)
    /\ mu' = RUnlock(mu, ReaderId)
    /\ rpc' = "idle"
    /\ UNCHANGED <<services, statuses, store, clock, subMu, subscribers, chans,
                   started, ctxDone, pc, args, statusCopy, rangeSubs, rangeIdx, tick,
                   cpc, cch, rarg, snap, calls, heap, lim, hist, web, daily>>

----------------------------------------------------------------------------
(* A reader calls GetStatus or GetAllStatuses *)

\* the orders in which a range over a Go map may visit the keys in keys
Orders(keys) ==
    {o \in [1..Cardinality(keys) -> keys] :
        \A i, j \in 1..Cardinality(keys) : o[i] = o[j] => i = j}

\* GetStatus(name): m.mu.RLock()
GetStatusRLock(name) ==
    /\ rpc = "idle"
    /\ CanRLock(mu)
    /\ mu' = RLock(mu, ReaderId)
    /\ rpc' = "get"
    /\ rarg' = name
    /\ UNCHANGED <<services, statuses, store, clock, subMu, subscribers, chans,
                   started, ctxDone, pc, args, statusCopy, rangeSubs, rangeIdx, tick,
                   cpc, cch, overall, snap, calls, heap, lim, hist, web, daily>>

\* the lookup: a copy of the entry, or nil; the deferred m.mu.RUnlock().
\* Entries are values here, so the copy is the entry's value at this moment
\* (what the copy shares with the entry is the matter of the Copies run)
GetStatusReturn ==
    /\ rpc = "get"
    /\ snap' = IF rarg \in DOMAIN statuses
               THEN <<statuses[rarg]>> ELSE << >>
    /\ mu' = RUnlock(mu, ReaderId)
    /\ rpc' = "idle"
    /\ UNCHANGED <<services, statuses, store, clock, subMu, subscribers, chans,
                   started, ctxDone, pc, args, statusCopy, rangeSubs, rangeIdx, tick,
                   cpc, cch, overall, rarg, calls, heap, lim, hist, web, daily>>

\* GetAllStatuses(): m.mu.RLock()
GetAllRLock ==
    /\ rpc = "idle"
    /\ CanRLock(mu)
    /\ mu' = RLock(mu, ReaderId)
    /\ rpc' = "all"
    /\ UNCHANGED <<services, statuses, store, clock, subMu, subscribers, chans,
                   started, ctxDone, pc, args, statusCopy, rangeSubs, rangeIdx, tick,
                   cpc, cch, overall, rarg, snap, calls, heap, lim, hist, web, daily>>

\* the range over m.statuses, a copy of each entry appended in the order the
\* map yields them; the deferred m.mu.RUnlock()
GetAllReturn ==
    /\ rpc = "all"
    /\ \E o \in Orders(DOMAIN statuses) :
          snap' = [i \in 1..Len(o) |-> statuses[o[i]]]
    /\ mu' = RUnlock(mu, ReaderId)
    /\ rpc' = "idle"
    /\ UNCHANGED <<services, statuses, store, clock, subMu, subscribers, chans,
                   started, ctxDone, pc, args, statusCopy, rangeSubs, rangeIdx, tick,
                   cpc, cch, overall, rarg, calls, heap, lim, hist, web, daily>>

----------------------------------------------------------------------------
(* Overall run: GetOverallStatus over every mix of classifications.  The    *)
(* process starts over a store in which an earlier process left, for some   *)
(* of the services, the snapshot of one check.                              *)

Services(k) == [i \in 1..k |-> Service(ServiceNames[i])]

\* the bucket after earlier[n] was the one check of service n, for the
\* services earlier names
RECURSIVE StoreAfter(_, _)
StoreAfter(earlier, names) ==
    IF names = {} THEN EmptyMap
    ELSE LET n == CHOOSE x \in names : TRUE
             st == ApplyUpdate(ColdStatus(Service(n)), earlier[n], 1)
         IN SaveServiceCheckHistory(StoreAfter(earlier, names \ {n}), n,
                CheckPoints(st.History), st.Uptime, st.LastCheck, st.ErrorMessage)

InitOverall ==
    \E k \in 0..MaxServices :
    \E checked \in SUBSET {ServiceNames[i] : i \in 1..k} :
    \E earlier \in [checked -> ProbeOutcomes] :
        InitWith(Services(k), StoreAfter(earlier, checked),
                 [checks |-> 0, vary |-> 0, restarts |-> 0, writeFailures |-> 0]
                 @@ NoClients)

NextOverall ==
    \/ OverallRLock
    \/ OverallReturn

SpecOverall == InitOverall /\ [][NextOverall]_vars

----------------------------------------------------------------------------
(* Fanout run: one service is checked until the buffers of clients that     *)
(* subscribed early are full                                                *)

InitFanout ==
    InitWith(<<Service(ServiceNames[1])>>, EmptyMap,
             [checks |-> MaxChecksFanout, vary |-> 0, restarts |-> 0,
              writeFailures |-> 0, clients |-> MaxClients,
              subscribes |-> MaxClients, subscribeBy |-> SubscribeBy,
              unsubscribes |-> 0, receives |-> MaxReceives])

NextFanout ==
    \/ Start
    \/ \E t \in Tasks : InitialCheck(t)
    \/ \E t \in Tasks : Tick(t)
    \/ \E t \in Tasks : SelectTick(t)
    \/ \E t \in Tasks : ProbeReturn(t)
    \/ \E t \in Tasks : UpdLock(t)
    \/ \E t \in Tasks : UpdMutate(t)
    \/ \E t \in Tasks : UpdPersist(t)
    \/ \E t \in Tasks : UpdCopyUnlock(t)
    \/ \E t \in Tasks : NotifyRLock(t)
    \/ \E t \in Tasks : NotifySend(t)
    \/ \E t \in Tasks : NotifyRUnlock(t)
    \/ \E c \in Clients : SubscribeLock(c)
    \/ \E c \in Clients : SubscribeAppend(c)
    \/ \E c \in Clients : Receive(c)

SpecFanout == InitFanout /\ [][NextFanout]_vars

----------------------------------------------------------------------------
(* Scheduler run: two services, every step of the scheduler and of the     *)
(* Status Store interleaved, ticks arriving at any time, and Stop           *)

InitConc ==
    InitWith(Services(2), EmptyMap,
             [checks |-> MaxChecks, vary |-> 0, restarts |-> 0,
              writeFailures |-> MaxWriteFailures] @@ NoClients)

NextConc ==
    \/ Start
    \/ Stop
    \/ \E t \in Tasks : InitialCheck(t)
    \/ \E t \in Tasks : Tick(t)
    \/ \E t \in Tasks : SelectTick(t)
    \/ \E t \in Tasks : SelectDone(t)
    \/ \E t \in Tasks : ProbeReturn(t)
    \/ \E t \in Tasks : UpdLock(t)
    \/ \E t \in Tasks : UpdMutate(t)
    \/ \E t \in Tasks : UpdPersist(t)
    \/ \E t \in Tasks : UpdPersistFail(t)
    \/ \E t \in Tasks : UpdCopyUnlock(t)
    \/ \E t \in Tasks : NotifyRLock(t)
    \/ \E t \in Tasks : NotifyRUnlock(t)

Spec == InitConc /\ [][NextConc]_vars

\* what the goroutine of task t does next
TaskStep(t) ==
    \/ InitialCheck(t)
    \/ SelectTick(t)
    \/ SelectDone(t)
    \/ ProbeReturn(t)
    \/ UpdLock(t)
    \/ UpdMutate(t)
    \/ UpdPersist(t)
    \/ UpdPersistFail(t)
    \/ UpdCopyUnlock(t)
    \/ NotifyRLock(t)
    \/ NotifyRUnlock(t)

\* the Go scheduler runs every goroutine that can run, every probe returns
\* (it is bounded by its timeout), and a select with several ready cases
\* picks among them at random, so a Done case that is ready again and again
\* is taken in the end
SpecLive ==
    /\ InitConc
    /\ [][NextConc]_vars
    /\ WF_vars(TaskStep(1)) /\ SF_vars(SelectDone(1))
    /\ WF_vars(TaskStep(2)) /\ SF_vars(SelectDone(2))

----------------------------------------------------------------------------
(* Subscription run: two services publish while clients subscribe, receive *)
(* and unsubscribe                                                          *)

InitPubSub ==
    InitWith(Services(2), EmptyMap,
             [checks |-> MaxPublications, vary |-> 0, restarts |-> 0,
              writeFailures |-> 0,
              clients |-> MaxSubscribers, subscribes |-> MaxSubscribers,
              subscribeBy |-> MaxPublications + 1,
              unsubscribes |-> MaxUnsubscribes, receives |-> MaxReceives])

NextPubSub ==
    \/ Start
    \/ \E t \in Tasks : InitialCheck(t)
    \/ \E t \in Tasks : Tick(t)
    \/ \E t \in Tasks : SelectTick(t)
    \/ \E t \in Tasks : ProbeReturn(t)
    \/ \E t \in Tasks : UpdLock(t)
    \/ \E t \in Tasks : UpdMutate(t)
    \/ \E t \in Tasks : UpdPersist(t)
    \/ \E t \in Tasks : UpdCopyUnlock(t)
    \/ \E t \in Tasks : NotifyRLock(t)
    \/ \E t \in Tasks : NotifySend(t)
    \/ \E t \in Tasks : NotifyRUnlock(t)
    \/ \E c \in Clients : SubscribeLock(c)
    \/ \E c \in Clients : SubscribeAppend(c)
    \/ \E c \in Clients : Receive(c)
    \/ \E c \in Clients : UnsubscribeLock(c)
    \/ \E c \in Clients : UnsubscribeRemove(c)

SpecPubSub == InitPubSub /\ [][NextPubSub]_vars

----------------------------------------------------------------------------
(* Store run: two services are checked, updateStatus writes the entry one  *)
(* statement at a time, and a reader calls the three Get operations.  The   *)
(* process starts over a store in which an earlier process left the first   *)
(* service one check that found it down.                                    *)

FoundDown == CHOOSE o \in ProbeOutcomes : o.status = StatusDown

InitStore ==
    InitWith(Services(2),
             StoreAfter([n \in {ServiceNames[1]} |-> FoundDown], {ServiceNames[1]}),
             [checks |-> MaxChecksStore, vary |-> 0, restarts |-> 0,
              writeFailures |-> 0] @@ NoClients)

NextStore ==
    \/ Start
    \/ \E t \in Tasks : InitialCheck(t)
    \/ \E t \in Tasks : Tick(t)
    \/ \E t \in Tasks : SelectTick(t)
    \/ \E t \in Tasks : ProbeReturn(t)
    \/ \E t \in Tasks : UpdLock(t)
    \/ \E t \in Tasks : UpdFields(t)
    \/ \E t \in Tasks : UpdHistory(t)
    \/ \E t \in Tasks : UpdUptime(t)
    \/ \E t \in Tasks : UpdPersist(t)
    \/ \E t \in Tasks : UpdCopyUnlock(t)
    \/ \E t \in Tasks : NotifyRLock(t)
    \/ \E t \in Tasks : NotifyRUnlock(t)
    \/ \E i \in 1..(Len(services) + 1) : GetStatusRLock(ServiceNames[i])
    \/ GetStatusReturn
    \/ GetAllRLock
    \/ GetAllReturn
    \/ OverallRLock
    \/ OverallReturn

SpecStore == InitStore /\ [][NextStore]_vars

----------------------------------------------------------------------------
(* Restore run: a process is constructed over the store an earlier process *)
(* left, and a reader asks for snapshots before anything is started         *)

\* the entry of svc in a process that applied the updates outs, in order
RECURSIVE StatusAfter(_, _)
StatusAfter(svc, outs) ==
    IF outs = << >> THEN ColdStatus(svc)
    ELSE ApplyUpdate(StatusAfter(svc, SubSeq(outs, 1, Len(outs) - 1)),
                     outs[Len(outs)], 2 * Len(outs) - 1)

\* the bucket that process left: a document for every service it checked
RECURSIVE StoreLeft(_, _)
StoreLeft(svcs, outs) ==
    IF svcs = << >> THEN EmptyMap
    ELSE LET k == Len(svcs)
             rest == StoreLeft(SubSeq(svcs, 1, k - 1), outs)
             st == StatusAfter(svcs[k], outs[k])
         IN IF outs[k] = << >> THEN rest
            ELSE SaveServiceCheckHistory(rest, st.Name, CheckPoints(st.History),
                                         st.Uptime, st.LastCheck, st.ErrorMessage)

\* the sequences of at most n probe outcomes
OutcomeSeqs(n) == UNION {[1..k -> ProbeOutcomes] : k \in 0..n}

InitRestore ==
    \E outs \in [1..2 -> OutcomeSeqs(MaxStored)] :
        InitWith(Services(2), StoreLeft(Services(2), outs),
                 [checks |-> 0, vary |-> 0, restarts |-> 0, writeFailures |-> 0]
                 @@ NoClients)

NextRestore ==
    \/ \E i \in 1..(Len(services) + 1) : GetStatusRLock(ServiceNames[i])
    \/ GetStatusReturn
    \/ GetAllRLock
    \/ GetAllReturn

SpecRestore == InitRestore /\ [][NextRestore]_vars

----------------------------------------------------------------------------
(* Copies run: one service, cold or warm-started with a full history, is   *)
(* checked with memory followed; a reader and a subscriber are handed      *)
(* copies and write to them                                                *)

MaxChecksCopies == 2
MaxSnapshots == 1
MaxWrites == 1

\* hist.handed: the pointers handed out, with the value each had then
Handed(p, kind) == [obj |-> p, was |-> View(heap', p), kind |-> kind]

\* updateStatus's writes, made through the pointer m.statuses[name]
UpdMutateHeap(t) ==
    LET name == services[t].Name IN
    /\ pc[t] = "upd_mutate"
    /\ name \in DOMAIN statuses
    /\ statuses' = [statuses EXCEPT ![name] = ApplyUpdate(@, args[t], clock + 1)]
    /\ heap' = UpdateInPlace(heap, heap.entry[name], args[t], clock + 1)
    /\ clock' = clock + 2
    /\ hist' = [hist EXCEPT !.updates = @ + 1,
                            !.lastUpdate = [name |-> name, args |-> args[t]]]
    /\ pc' = [pc EXCEPT ![t] = "upd_persist"]
    /\ UNCHANGED <<services, store, mu, subMu, subscribers, chans,
                   started, ctxDone, args, statusCopy, rangeSubs, rangeIdx, tick,
                   cpc, cch, overall, rpc, rarg, snap, calls, lim, web, daily>>

\* "Create copy for notification"; m.mu.Unlock(); &statusCopy goes to
\* notifySubscribers
UpdCopyHeap(t) ==
    LET name == services[t].Name IN
    /\ pc[t] = "upd_copy"
    /\ heap' = CopyStatus(heap, heap.entry[name])
    /\ statusCopy' = [statusCopy EXCEPT ![t] = View(heap', Len(heap'.objs))]
    /\ hist' = [hist EXCEPT !.handed = Append(@, Handed(Len(heap'.objs), "published"))]
    /\ mu' = Unlock(mu, TaskId(t))
    /\ pc' = [pc EXCEPT ![t] = "ntf_rlock"]
    /\ UNCHANGED <<services, statuses, store, clock, subMu, subscribers, chans,
                   started, ctxDone, args, rangeSubs, rangeIdx, tick,
                   cpc, cch, overall, rpc, rarg, snap, calls, lim, web, daily>>

\* GetStatus: the lookup, the copy, return &s; the deferred m.mu.RUnlock()
GetStatusHeap ==
    /\ rpc = "get"
    /\ IF rarg \in DOMAIN heap.entry
       THEN /\ heap' = CopyStatus(heap, heap.entry[rarg])
            /\ snap' = <<View(heap', Len(heap'.objs))>>
            /\ hist' = [hist EXCEPT
                          !.handed = Append(@, Handed(Len(heap'.objs), "snapshot"))]
       ELSE /\ snap' = << >>
            /\ UNCHANGED <<heap, hist>>
    /\ mu' = RUnlock(mu, ReaderId)
    /\ rpc' = "idle"
    /\ UNCHANGED <<services, statuses, store, clock, subMu, subscribers, chans,
                   started, ctxDone, pc, args, statusCopy, rangeSubs, rangeIdx, tick,
                   cpc, cch, overall, rarg, calls, lim, web, daily>>

\* the heap after the entries named by o[from..] have been copied in turn
RECURSIVE CopyAll(_, _, _)
CopyAll(hp, o, from) ==
    IF from > Len(o) THEN hp
    ELSE CopyAll(CopyStatus(hp, hp.entry[o[from]]), o, from + 1)

\* GetAllStatuses: the range over m.statuses, a copy of each entry appended
\* in the order the map yields them; the deferred m.mu.RUnlock()
GetAllHeap ==
    /\ rpc = "all"
    /\ \E o \in Orders(DOMAIN heap.entry) :
          /\ heap' = CopyAll(heap, o, 1)
          /\ snap' = [i \in 1..Len(o) |-> View(heap', Len(heap.objs) + i)]
          /\ hist' = [hist EXCEPT
                        !.handed = @ \o [i \in 1..Len(o) |->
                                           Handed(Len(heap.objs) + i, "snapshot")]]
    /\ mu' = RUnlock(mu, ReaderId)
    /\ rpc' = "idle"
    /\ UNCHANGED <<services, statuses, store, clock, subMu, subscribers, chans,
                   started, ctxDone, pc, args, statusCopy, rangeSubs, rangeIdx, tick,
                   cpc, cch, overall, rarg, calls, lim, web, daily>>

\* the pointer handed out k-th is in its holder's hands: the reader's at
\* once, a subscriber's when it has received it
InHand(k) ==
    \/ hist.handed[k].kind = "snapshot"
    \/ \E ch \in 1..Len(hist.taken) : \E i \in 1..Len(hist.taken[ch]) :
          hist.taken[ch][i] = Ref(hist.handed[k].was)

Edited == [Timestamp |-> 0, ResponseTimeMs |-> 0, Status |-> StatusUnknown,
           StatusCode |-> -1]

\* the holder of a copy changes it through its pointer: a field, the first
\* point of its history, or the history by an append
HolderWrites(k, what) ==
    LET p == hist.handed[k].obj
        h == heap.objs[p].h
    IN /\ hist.writes < lim.writes
       /\ InHand(k)
       /\ CASE what = "field" ->
                 heap' = [heap EXCEPT !.objs[p].val.ErrorMessage = "edited"]
            [] what = "point" ->
                 /\ h.len > 0
                 /\ heap' = [heap EXCEPT !.arrs[h.arr] = WriteCell(@, h.off + 1, Edited)]
            [] what = "append" ->
                 heap' = AppendTo(heap, p, Edited)
       /\ hist' = [hist EXCEPT !.writes = @ + 1]
       /\ UNCHANGED <<services, statuses, store, clock, mu, subMu, subscribers, chans,
                      started, ctxDone, pc, args, statusCopy, rangeSubs, rangeIdx,
                      tick, cpc, cch, overall, rpc, rarg, snap, calls, lim, web, daily>>

\* the bucket a process leaves that has found the service healthy often
\* enough to fill its history
FullStore ==
    LET h == [k \in 1..maxHistory |->
                 HistoryPoint(Healthy.status, Healthy.responseTime,
                              Healthy.statusCode, 2 * k)]
    IN SaveServiceCheckHistory(EmptyMap, ServiceNames[1], CheckPoints(h),
                               CalcUptime(h, Rat(100, 1)), 2 * maxHistory - 1, "")

InitCopies ==
    \E db \in {EmptyMap, FullStore} :
        InitWith(Services(1), db,
                 [checks |-> MaxChecksCopies, vary |-> 0, restarts |-> 0,
                  writeFailures |-> 0, clients |-> 1, subscribes |-> 1,
                  subscribeBy |-> 1, unsubscribes |-> 0, receives |-> 1,
                  snapshots |-> MaxSnapshots, writes |-> MaxWrites])

NextCopies ==
    \/ Start
    \/ \E t \in Tasks : InitialCheck(t)
    \/ \E t \in Tasks : Tick(t)
    \/ \E t \in Tasks : SelectTick(t)
    \/ \E t \in Tasks : ProbeReturn(t)
    \/ \E t \in Tasks : UpdLock(t)
    \/ \E t \in Tasks : UpdMutateHeap(t)
    \/ \E t \in Tasks : UpdPersist(t)
    \/ \E t \in Tasks : UpdCopyHeap(t)
    \/ \E t \in Tasks : NotifyRLock(t)
    \/ \E t \in Tasks : NotifySend(t)
    \/ \E t \in Tasks : NotifyRUnlock(t)
    \/ \E c \in Clients : SubscribeLock(c)
    \/ \E c \in Clients : SubscribeAppend(c)
    \/ \E c \in Clients : Receive(c)
    \/ Len(hist.handed) < hist.updates + lim.snapshots /\ GetStatusRLock(ServiceNames[1])
    \/ GetStatusHeap
    \/ Len(hist.handed) < hist.updates + lim.snapshots /\ GetAllRLock
    \/ GetAllHeap
    \/ \E k \in 1..Len(hist.handed) : \E what \in {"field", "point", "append"} :
          HolderWrites(k, what)

SpecCopies == InitCopies /\ [][NextCopies]_vars

----------------------------------------------------------------------------
(* Names run: none, one or two services are configured over an empty store *)
(* or one left by a process that had two; each is checked once while a     *)
(* reader asks for configured and other names                              *)

MaxConfigured == 2

InitNames ==
    \E k \in 0..MaxConfigured :
    \E db \in {EmptyMap, StoreLeft(Services(MaxConfigured),
                                    [i \in 1..MaxConfigured |-> <<FoundDown>>])} :
        InitWith(Services(k), db,
                 [checks |-> 0, vary |-> 0, restarts |-> 0, writeFailures |-> 0]
                 @@ NoClients)

NextNames ==
    \/ Start
    \/ \E t \in Tasks : InitialCheck(t)
    \/ \E t \in Tasks : ProbeReturn(t)
    \/ \E t \in Tasks : UpdLock(t)
    \/ \E t \in Tasks : UpdMutate(t)
    \/ \E t \in Tasks : UpdPersist(t)
    \/ \E t \in Tasks : UpdCopyUnlock(t)
    \/ \E t \in Tasks : NotifyRLock(t)
    \/ \E t \in Tasks : NotifyRUnlock(t)
    \/ \E i \in 1..(MaxConfigured + 1) : GetStatusRLock(ServiceNames[i])
    \/ GetStatusReturn
    \/ GetAllRLock
    \/ GetAllReturn

SpecNames == InitNames /\ [][NextNames]_vars

----------------------------------------------------------------------------
(* Write-failure run: one service is checked while writes to the store may *)
(* fail and clients subscribe                                               *)

InitWriteFail ==
    InitWith(Services(1), EmptyMap,
             [checks |-> MaxPublications, vary |-> 0, restarts |-> 0,
              writeFailures |-> MaxWriteFailures,
              clients |-> MaxSubscribers, subscribes |-> MaxSubscribers,
              subscribeBy |-> MaxPublications + 1,
              unsubscribes |-> 0, receives |-> 0])

NextWriteFail ==
    \/ Start
    \/ \E t \in Tasks : InitialCheck(t)
    \/ \E t \in Tasks : Tick(t)
    \/ \E t \in Tasks : SelectTick(t)
    \/ \E t \in Tasks : ProbeReturn(t)
    \/ \E t \in Tasks : UpdLock(t)
    \/ \E t \in Tasks : UpdMutate(t)
    \/ \E t \in Tasks : UpdPersist(t)
    \/ \E t \in Tasks : UpdPersistFail(t)
    \/ \E t \in Tasks : UpdCopyUnlock(t)
    \/ \E t \in Tasks : NotifyRLock(t)
    \/ \E t \in Tasks : NotifySend(t)
    \/ \E t \in Tasks : NotifyRUnlock(t)
    \/ \E c \in Clients : SubscribeLock(c)
    \/ \E c \in Clients : SubscribeAppend(c)

SpecWriteFail == InitWriteFail /\ [][NextWriteFail]_vars

----------------------------------------------------------------------------
(* Probe run: one service of any check type, looking for a reply or not, *)
(* is checked over every observation its probe can make                   *)

MaxChecksProbe == 2

\* tls_warn_days as configured: unset, and a window shorter than a week
WarnDays == {0, 5}

InitProbes ==
    \E ty \in CheckTypes : \E expected \in {"", "pong"} :
    \E warn \in (IF ty = "tls" THEN WarnDays ELSE {0}) :
        InitWith(<<[ProbedService(ServiceNames[1], ty, expected)
                       EXCEPT !.TLSWarnDays = warn]>>, EmptyMap,
                 [checks |-> MaxChecksProbe, vary |-> 0, restarts |-> 0,
                  writeFailures |-> 0, clients |-> 0, subscribes |-> 0,
                  subscribeBy |-> 0, unsubscribes |-> 0, receives |-> 0])

NextProbes ==
    \/ Start
    \/ \E t \in Tasks : InitialCheck(t)
    \/ \E t \in Tasks : Tick(t)
    \/ \E t \in Tasks : SelectTick(t)
    \/ \E t \in Tasks : CheckService(t)
    \/ \E t \in Tasks : UpdLock(t)
    \/ \E t \in Tasks : UpdMutate(t)
    \/ \E t \in Tasks : UpdPersist(t)
    \/ \E t \in Tasks : UpdCopyUnlock(t)
    \/ \E t \in Tasks : NotifyRLock(t)
    \/ \E t \in Tasks : NotifyRUnlock(t)

SpecProbes == InitProbes /\ [][NextProbes]_vars

----------------------------------------------------------------------------
(* The order of the steps of updateStatus: one service, cold or with a     *)
(* full history in the database, a subscriber, and updateStatus followed   *)
(* write by write                                                          *)

MaxChecksOrder == 2

InitOrder ==
    \E db \in {EmptyMap, FullStore} :
        InitWith(Services(1), db,
                 [checks |-> MaxChecksOrder, vary |-> MaxChecksOrder, restarts |-> 0,
                  writeFailures |-> 0, clients |-> 1, subscribes |-> 1,
                  subscribeBy |-> MaxChecksOrder + 1, unsubscribes |-> 0,
                  receives |-> 0])

NextOrder ==
    \/ Start
    \/ \E t \in Tasks : InitialCheck(t)
    \/ \E t \in Tasks : Tick(t)
    \/ \E t \in Tasks : SelectTick(t)
    \/ \E t \in Tasks : ProbeReturn(t)
    \/ \E t \in Tasks : UpdLock(t)
    \/ \E t \in Tasks : UpdFields(t)
    \/ \E t \in Tasks : UpdHistory(t)
    \/ \E t \in Tasks : UpdUptime(t)
    \/ \E t \in Tasks : UpdPersist(t)
    \/ \E t \in Tasks : UpdCopyUnlock(t)
    \/ \E t \in Tasks : NotifyRLock(t)
    \/ \E t \in Tasks : NotifySend(t)
    \/ \E t \in Tasks : NotifyRUnlock(t)
    \/ \E c \in Clients : SubscribeLock(c)
    \/ \E c \in Clients : SubscribeAppend(c)

SpecOrder == InitOrder /\ [][NextOrder]_vars

----------------------------------------------------------------------------
(* The two locks: two services are updated while a reader reads the Status *)
(* Store and a client subscribes and unsubscribes                          *)

MaxChecksLocks == 2

InitLocks ==
    InitWith(Services(2), EmptyMap,
             [checks |-> MaxChecksLocks, vary |-> 0, restarts |-> 0,
              writeFailures |-> 0, clients |-> 1, subscribes |-> 1,
              subscribeBy |-> MaxChecksLocks + 1, unsubscribes |-> 1,
              receives |-> 0])

NextLocks ==
    \/ Start
    \/ \E t \in Tasks : InitialCheck(t)
    \/ \E t \in Tasks : Tick(t)
    \/ \E t \in Tasks : SelectTick(t)
    \/ \E t \in Tasks : ProbeReturn(t)
    \/ \E t \in Tasks : UpdLock(t)
    \/ \E t \in Tasks : UpdMutate(t)
    \/ \E t \in Tasks : UpdPersist(t)
    \/ \E t \in Tasks : UpdCopyUnlock(t)
    \/ \E t \in Tasks : NotifyRLock(t)
    \/ \E t \in Tasks : NotifySend(t)
    \/ \E t \in Tasks : NotifyRUnlock(t)
    \/ \E c \in Clients : SubscribeLock(c)
    \/ \E c \in Clients : SubscribeAppend(c)
    \/ \E c \in Clients : UnsubscribeLock(c)
    \/ \E c \in Clients : UnsubscribeRemove(c)
    \/ GetStatusRLock(ServiceNames[1])
    \/ GetStatusReturn
    \/ GetAllRLock
    \/ GetAllReturn
    \/ OverallRLock
    \/ OverallReturn

SpecLocks == InitLocks /\ [][NextLocks]_vars

----------------------------------------------------------------------------
(* Cancellation and the probes: one service, probed over http, dns or tcp, *)
(* and Stop called at any moment                                           *)

MaxChecksCancel == 2

InitCancel ==
    \E ty \in {"http", "dns", "tcp"} :
        InitWith(<<ProbedService(ServiceNames[1], ty, "")>>, EmptyMap,
                 [checks |-> MaxChecksCancel, vary |-> 0, restarts |-> 0,
                  writeFailures |-> 0, clients |-> 0, subscribes |-> 0,
                  subscribeBy |-> 0, unsubscribes |-> 0, receives |-> 0])

NextCancel ==
    \/ Start
    \/ Stop
    \/ \E t \in Tasks : InitialCheck(t)
    \/ \E t \in Tasks : Tick(t)
    \/ \E t \in Tasks : SelectTick(t)
    \/ \E t \in Tasks : SelectDone(t)
    \/ \E t \in Tasks : CheckService(t)
    \/ \E t \in Tasks : UpdLock(t)
    \/ \E t \in Tasks : UpdMutate(t)
    \/ \E t \in Tasks : UpdPersist(t)
    \/ \E t \in Tasks : UpdCopyUnlock(t)
    \/ \E t \in Tasks : NotifyRLock(t)
    \/ \E t \in Tasks : NotifyRUnlock(t)

SpecCancel == InitCancel /\ [][NextCancel]_vars

----------------------------------------------------------------------------
(* Round trip run: one service is probed, its updates are persisted, and the
   process is restarted over the store it left *)

MaxChecksRoundTrip == 2
MaxRestartsRoundTrip == 1

InitRoundTrip ==
    \E ty \in {"tcp", "smtp"} :
        InitWith(<<ProbedService(ServiceNames[1], ty, "")>>, EmptyMap,
                 [checks |-> MaxChecksRoundTrip, vary |-> 0,
                  restarts |-> MaxRestartsRoundTrip, writeFailures |-> 0]
                 @@ NoClients)

NextRoundTrip ==
    \/ Start
    \/ Restart
    \/ \E t \in Tasks : InitialCheck(t)
    \/ \E t \in Tasks : Tick(t)
    \/ \E t \in Tasks : SelectTick(t)
    \/ \E t \in Tasks : CheckService(t)
    \/ \E t \in Tasks : UpdLock(t)
    \/ \E t \in Tasks : UpdMutate(t)
    \/ \E t \in Tasks : UpdPersist(t)
    \/ \E t \in Tasks : UpdCopyUnlock(t)
    \/ \E t \in Tasks : NotifyRLock(t)
    \/ \E t \in Tasks : NotifyRUnlock(t)

SpecRoundTrip == InitRoundTrip /\ [][NextRoundTrip]_vars

----------------------------------------------------------------------------
(* Unknown name run: updateStatus is called for a name the Monitor was not
   constructed with.  monitorService runs for configured services only, so
   the second task stands for another caller inside the package: it makes
   the calls of monitorService with a service the Status Store has no entry
   for *)

MaxChecksUnknown == 2

InitUnknown ==
    LET svcs == Services(2) IN
    /\ services = svcs
    /\ store = EmptyMap
    /\ clock = 0
    /\ lim = [checks |-> MaxChecksUnknown, vary |-> MaxChecksUnknown,
              restarts |-> 0, writeFailures |-> 0, clients |-> 1,
              subscribes |-> 1, subscribeBy |-> 1, unsubscribes |-> 0,
              receives |-> 0]
    /\ cpc = [c \in 1..1 |-> "idle"]
    /\ cch = [c \in 1..1 |-> 0]
    /\ hist = NoHistory(svcs)
    /\ statuses = NewMonitor(SubSeq(svcs, 1, 1), EmptyMap)
    /\ FreshProcess(svcs, EmptyMap)
    /\ web = NoWeb
    /\ daily = NoDaily

NextUnknown ==
    \/ Start
    \/ \E t \in Tasks : InitialCheck(t)
    \/ \E t \in Tasks : Tick(t)
    \/ \E t \in Tasks : SelectTick(t)
    \/ \E t \in Tasks : ProbeReturn(t)
    \/ \E t \in Tasks : UpdLock(t)
    \/ \E t \in Tasks : UpdMutate(t)
    \/ \E t \in Tasks : UpdPersist(t)
    \/ \E t \in Tasks : UpdCopyUnlock(t)
    \/ \E t \in Tasks : NotifyRLock(t)
    \/ \E t \in Tasks : NotifySend(t)
    \/ \E t \in Tasks : NotifyRUnlock(t)
    \/ \E c \in Clients : SubscribeLock(c)
    \/ \E c \in Clients : SubscribeAppend(c)

SpecUnknown == InitUnknown /\ [][NextUnknown]_vars

----------------------------------------------------------------------------
(* Unsubscribe run: clients subscribe and unsubscribe, some of them more
   than once, and one client calls Unsubscribe with a channel it made itself *)

MaxRegistered == 3
MaxOwnChannels == 1
MaxUnsubscribeCalls == 3

\* ch := make(chan *ServiceStatus) by a caller that does not subscribe: the
\* client holds a channel the registry has never seen
MakeChan(c) ==
    /\ cpc[c] = "idle"
    /\ c > lim.subscribes
    /\ chans' = Append(chans, NewChan)
    /\ cch' = [cch EXCEPT ![c] = Len(chans) + 1]
    /\ cpc' = [cpc EXCEPT ![c] = "unsubscribed"]
    /\ hist' = [hist EXCEPT !.since = Append(@, 0),
                            !.taken = Append(@, << >>),
                            !.reads = Append(@, 0)]
    /\ UNCHANGED <<services, statuses, store, clock, mu, subMu, subscribers,
                   started, ctxDone, pc, args, statusCopy, rangeSubs, rangeIdx, tick,
                   overall, rpc, rarg, snap, calls, heap, lim, web, daily>>

InitUnsubscribe ==
    InitWith(Services(1), EmptyMap,
             [checks |-> 0, vary |-> 0, restarts |-> 0, writeFailures |-> 0,
              clients |-> MaxRegistered + MaxOwnChannels,
              subscribes |-> MaxRegistered, subscribeBy |-> 1,
              unsubscribes |-> MaxUnsubscribeCalls, receives |-> 0])

NextUnsubscribe ==
    \/ \E c \in Clients : SubscribeLock(c)
    \/ \E c \in Clients : SubscribeAppend(c)
    \/ \E c \in Clients : MakeChan(c)
    \/ \E c \in Clients : UnsubscribeLock(c)
    \/ \E c \in Clients : UnsubscribeRemove(c)

SpecUnsubscribe == InitUnsubscribe /\ [][NextUnsubscribe]_vars

----------------------------------------------------------------------------
(* Web server: requireAuth and the write endpoints of the incidents and
   maintenance API *)

MaxRequests == 1

\* strings.Index(s, c) for a one-character c, counted from 1; 0 if absent
RECURSIVE IndexFrom(_, _, _)
IndexFrom(s, c, i) ==
    IF i > Len(s) THEN 0
    ELSE IF SubSeq(s, i, i) = c THEN i
    ELSE IndexFrom(s, c, i + 1)

IndexByte(s, c) == IndexFrom(s, c, 1)

\* strings.LastIndex(s, c) for a one-character c, counted from 1; 0 if absent
RECURSIVE LastIndexFrom(_, _, _)
LastIndexFrom(s, c, i) ==
    IF i < 1 THEN 0
    ELSE IF SubSeq(s, i, i) = c THEN i
    ELSE LastIndexFrom(s, c, i - 1)

LastIndexByte(s, c) == LastIndexFrom(s, c, Len(s))

\* strings.TrimPrefix
TrimPrefix(s, prefix) ==
    IF HasPrefix(s, prefix) THEN SubSeq(s, Len(prefix) + 1, Len(s)) ELSE s

\* getClientIP: the first entry of X-Forwarded-For, else X-Real-IP, else the
\* peer address without its port
getClientIP(r) ==
    IF r.XForwardedFor # ""
    THEN LET comma == IndexByte(r.XForwardedFor, ",")
         IN TrimSpace(IF comma = 0 THEN r.XForwardedFor
                      ELSE SubSeq(r.XForwardedFor, 1, comma - 1))
    ELSE IF r.XRealIP # "" THEN r.XRealIP
    ELSE LET colonIdx == LastIndexByte(r.RemoteAddr, ":")
         IN IF colonIdx # 0 THEN SubSeq(r.RemoteAddr, 1, colonIdx - 1)
            ELSE r.RemoteAddr

\* r.BasicAuth(): the Authorization header must be "Basic " and the
\* credentials, user and password separated by the first colon.  The
\* credentials are written here as they read after the base64 decoding
BasicAuth(r) ==
    LET c == TrimPrefix(r.Authorization, "Basic ")
        colon == IndexByte(c, ":")
    IN IF HasPrefix(r.Authorization, "Basic ") /\ colon # 0
       THEN [ok |-> TRUE, username |-> SubSeq(c, 1, colon - 1),
             password |-> SubSeq(c, colon + 1, Len(c))]
       ELSE [ok |-> FALSE, username |-> "", password |-> ""]

\* the key the request presents: the X-API-Key header, else api_key of the
\* query
PresentedKey(r) == IF r.XAPIKey # "" THEN r.XAPIKey ELSE r.QueryKey

\* mutant: an empty whitelist lets every address in
requireAuth_openWhitelist(cfg, r) ==
    LET hasAuth == cfg.Key # "" \/ cfg.BearerToken # "" \/ cfg.BasicAuth.Enabled
        basic == BasicAuth(r)
    IN \/ ~hasAuth
       \/ \A i \in 1..Len(cfg.AllowedIPs) :
             cfg.AllowedIPs[i] = getClientIP(r) \/ cfg.AllowedIPs[i] = "*"
       \/ cfg.Key # "" /\ PresentedKey(r) = cfg.Key
       \/ /\ cfg.BearerToken # ""
          /\ HasPrefix(r.Authorization, "Bearer ")
          /\ TrimPrefix(r.Authorization, "Bearer ") = cfg.BearerToken
       \/ /\ cfg.BasicAuth.Enabled
          /\ basic.ok
          /\ basic.username = cfg.BasicAuth.Username
          /\ basic.password = cfg.BasicAuth.Password

\* requireAuth: TRUE when next(w, r) is called, FALSE when the request is
\* answered 401
requireAuth(cfg, r) ==
    LET hasAuth == cfg.Key # "" \/ cfg.BearerToken # "" \/ cfg.BasicAuth.Enabled
        basic == BasicAuth(r)
    IN \/ ~hasAuth
       \/ /\ Len(cfg.AllowedIPs) > 0
          /\ \E i \in 1..Len(cfg.AllowedIPs) :
                cfg.AllowedIPs[i] = getClientIP(r) \/ cfg.AllowedIPs[i] = "*"
       \/ cfg.Key # "" /\ PresentedKey(r) = cfg.Key
       \/ /\ cfg.BearerToken # ""
          /\ HasPrefix(r.Authorization, "Bearer ")
          /\ TrimPrefix(r.Authorization, "Bearer ") = cfg.BearerToken
       \/ /\ cfg.BasicAuth.Enabled
          /\ basic.ok
          /\ basic.username = cfg.BasicAuth.Username
          /\ basic.password = cfg.BasicAuth.Password

\* the answer is written: its status code, and the handler behind
\* requireAuth that ran for the request ("" when none did)
Answer(w, code, ran) ==
    [w EXCEPT !.code = code, !.ran = ran, !.served = @ + 1]

\* jsonError(w, ..., http.StatusUnauthorized) of requireAuth
Unauthorized(w) == Answer(w, 401, "")

\* createIncident; CreateIncident stores it under a generated ID
createIncident(w, r) ==
    IF r.Body = "invalid" THEN Answer(w, 400, "createIncident")
    ELSE Answer([w EXCEPT !.ids = @ + 1,
                          !.incidents = (ToString(w.ids + 1) :> "investigating") @@ @],
                201, "createIncident")

\* the PUT and PATCH handler of handleAPIIncident; UpdateIncident writes the
\* status when the incident exists
updateIncident(w, r, id) ==
    IF r.Body = "invalid" THEN Answer(w, 400, "updateIncident")
    ELSE IF id \notin DOMAIN w.incidents THEN Answer(w, 404, "updateIncident")
    ELSE Answer([w EXCEPT !.incidents[id] = "resolved"], 200, "updateIncident")

\* the DELETE handler of handleAPIIncident; deleting a key that is absent is
\* no error
deleteIncident(w, r, id) ==
    Answer([w EXCEPT !.incidents =
                [k \in DOMAIN w.incidents \ {id} |-> w.incidents[k]]],
           204, "deleteIncident")

\* the POST handler of handleAPIMaintenance
createMaintenance(w, r) ==
    IF r.Body = "invalid" THEN Answer(w, 400, "createMaintenance")
    ELSE Answer([w EXCEPT !.ids = @ + 1,
                          !.maintenance = (ToString(w.ids + 1) :> "scheduled") @@ @],
                201, "createMaintenance")

\* the PUT and PATCH handler of handleAPIMaintenanceItem
updateMaintenance(w, r, id) ==
    IF r.Body = "invalid" THEN Answer(w, 400, "updateMaintenance")
    ELSE IF id \notin DOMAIN w.maintenance THEN Answer(w, 404, "updateMaintenance")
    ELSE Answer([w EXCEPT !.maintenance[id] = "completed"], 200, "updateMaintenance")

handleAPIIncidents(w, r) ==
    CASE r.Method = "GET" -> Answer(w, 200, "")
      [] r.Method = "POST" ->
            IF requireAuth(w.config, r) THEN createIncident(w, r)
            ELSE Unauthorized(w)
      [] OTHER -> Answer(w, 405, "")

handleAPIIncident(w, r) ==
    LET id == TrimPrefix(r.Path, "/api/incidents/") IN
    IF id = "" THEN Answer(w, 400, "")
    ELSE CASE r.Method = "GET" ->
                 Answer(w, IF id \in DOMAIN w.incidents THEN 200 ELSE 404, "")
           [] r.Method \in {"PUT", "PATCH"} ->
                 IF requireAuth(w.config, r) THEN updateIncident(w, r, id)
                 ELSE Unauthorized(w)
           [] r.Method = "DELETE" ->
                 IF requireAuth(w.config, r) THEN deleteIncident(w, r, id)
                 ELSE Unauthorized(w)
           [] OTHER -> Answer(w, 405, "")

handleAPIMaintenance(w, r) ==
    CASE r.Method = "GET" -> Answer(w, 200, "")
      [] r.Method = "POST" ->
            IF requireAuth(w.config, r) THEN createMaintenance(w, r)
            ELSE Unauthorized(w)
      [] OTHER -> Answer(w, 405, "")

handleAPIMaintenanceItem(w, r) ==
    LET id == TrimPrefix(r.Path, "/api/maintenance/") IN
    IF id = "" THEN Answer(w, 400, "")
    ELSE CASE r.Method \in {"PUT", "PATCH"} ->
                 IF requireAuth(w.config, r) THEN updateMaintenance(w, r, id)
                 ELSE Unauthorized(w)
           [] OTHER -> Answer(w, 405, "")

\* withMiddleware and the routes of the mux
ServeMux(w, r) ==
    IF r.Method = "OPTIONS" THEN Answer(w, 200, "")
    ELSE CASE r.Path = "/api/incidents" -> handleAPIIncidents(w, r)
           [] HasPrefix(r.Path, "/api/incidents/") -> handleAPIIncident(w, r)
           [] r.Path = "/api/maintenance" -> handleAPIMaintenance(w, r)
           [] OTHER -> handleAPIMaintenanceItem(w, r)

\* api: of the configuration
APIConfigs ==
    [Key : {"", "k1"},
     BearerToken : {"", "t1"},
     BasicAuth : {[Enabled |-> FALSE, Username |-> "", Password |-> ""],
                  [Enabled |-> TRUE, Username |-> "admin", Password |-> "pw"],
                  [Enabled |-> TRUE, Username |-> "", Password |-> ""]},
     AllowedIPs : {<< >>, <<"10.0.0.1">>, <<"10.0.0.2", "*">>}]

\* what a request presents as credentials
Credentials ==
    {[XAPIKey |-> "", QueryKey |-> "", Authorization |-> ""],
     [XAPIKey |-> "k1", QueryKey |-> "", Authorization |-> ""],
     [XAPIKey |-> "", QueryKey |-> "k1", Authorization |-> ""],
     [XAPIKey |-> "bad", QueryKey |-> "k1", Authorization |-> ""],
     [XAPIKey |-> "", QueryKey |-> "", Authorization |-> "Bearer t1"],
     [XAPIKey |-> "", QueryKey |-> "", Authorization |-> "bearer t1"],
     [XAPIKey |-> "", QueryKey |-> "", Authorization |-> "Bearer "],
     [XAPIKey |-> "", QueryKey |-> "", Authorization |-> "Basic admin:pw"],
     [XAPIKey |-> "", QueryKey |-> "", Authorization |-> "Basic admin:bad"],
     [XAPIKey |-> "", QueryKey |-> "", Authorization |-> "Basic :"],
     [XAPIKey |-> "bad", QueryKey |-> "", Authorization |-> "Basic pw"]}

\* where a request says it comes from
Origins ==
    {[XForwardedFor |-> "", XRealIP |-> "", RemoteAddr |-> "10.0.0.1:4000"],
     [XForwardedFor |-> "", XRealIP |-> "", RemoteAddr |-> "9.9.9.9:4000"],
     [XForwardedFor |-> "10.0.0.1, 9.9.9.9", XRealIP |-> "",
      RemoteAddr |-> "9.9.9.9:4000"],
     [XForwardedFor |-> " 9.9.9.9", XRealIP |-> "10.0.0.1",
      RemoteAddr |-> "10.0.0.1:4000"],
     [XForwardedFor |-> "", XRealIP |-> "10.0.0.1", RemoteAddr |-> "9.9.9.9:4000"]}

Requests ==
    {[Method |-> m, Path |-> p, Body |-> b] @@ c @@ o :
        m \in {"GET", "POST", "PUT", "PATCH", "DELETE", "OPTIONS"},
        p \in {"/api/incidents", "/api/incidents/1", "/api/incidents/",
               "/api/maintenance", "/api/maintenance/1"},
        b \in {"valid", "invalid"}, c \in Credentials, o \in Origins}

NoRequest ==
    [Method |-> "", Path |-> "", Body |-> "", XAPIKey |-> "", QueryKey |-> "",
     Authorization |-> "", XForwardedFor |-> "", XRealIP |-> "", RemoteAddr |-> ""]

\* the server reads a request off a connection
Accept ==
    /\ web.served < MaxRequests
    /\ web.request = NoRequest
    /\ \E r \in Requests : web' = [web EXCEPT !.request = r]
    /\ UNCHANGED <<services, statuses, store, clock, mu, subMu, subscribers, chans,
                   started, ctxDone, pc, args, statusCopy, rangeSubs, rangeIdx, tick,
                   cpc, cch, overall, rpc, rarg, snap, calls, heap, lim, hist, daily>>

\* s.server.Handler.ServeHTTP(w, r): the request is served to its answer
ServeHTTP ==
    /\ web.request # NoRequest
    /\ web' = [ServeMux(web, web.request) EXCEPT !.request = NoRequest]
    /\ UNCHANGED <<services, statuses, store, clock, mu, subMu, subscribers, chans,
                   started, ctxDone, pc, args, statusCopy, rangeSubs, rangeIdx, tick,
                   cpc, cch, overall, rpc, rarg, snap, calls, heap, lim, hist, daily>>

\* the server over a store that holds one incident and one maintenance
\* window of an earlier run
InitAuth ==
    /\ InitMonitor(Services(1), EmptyMap,
                   [checks |-> 0, vary |-> 0, restarts |-> 0, writeFailures |-> 0]
                   @@ NoClients)
    /\ \E cfg \in APIConfigs :
          web = [config |-> cfg,
                 incidents |-> ("1" :> "investigating"),
                 maintenance |-> ("1" :> "scheduled"),
                 ids |-> 1, served |-> 0, code |-> 0, ran |-> "",
                 request |-> NoRequest]
    /\ daily = NoDaily

NextAuth ==
    \/ Accept
    \/ ServeHTTP

SpecAuth == InitAuth /\ [][NextAuth]_vars

----------------------------------------------------------------------------
(* Daily history: RecordDailyStatus.  A date is the number of its day; the
   clock counts the midnights that have passed in this run *)

\* "Keep only last 90 days"
keptDays == 90

MaxDays == 92
MaxReplacements == 1
MaxEarlyDates == 1

\* time.Now().Format("2006-01-02")
Today == clock + 1

\* the history stored for the service, empty when the bucket has no key
DailyHistory(bucket, serviceName) ==
    IF serviceName \in DOMAIN bucket THEN bucket[serviceName] ELSE << >>

\* the loop over the history: index of the first entry from i on that has
\* the date, 0 if there is none
RECURSIVE IndexOfDateFrom(_, _, _)
IndexOfDateFrom(history, date, i) ==
    IF i > Len(history) THEN 0
    ELSE IF history[i].Date = date THEN i
    ELSE IndexOfDateFrom(history, date, i + 1)

IndexOfDate(history, date) == IndexOfDateFrom(history, date, 1)

\* mutant: the record is appended whether or not its date is present
RecordDailyStatus_appendsAlways(bucket, serviceName, status) ==
    LET history == DailyHistory(bucket, serviceName)
        added == Append(history, status)
        kept == IF Len(added) > keptDays
                THEN SubSeq(added, Len(added) - keptDays + 1, Len(added))
                ELSE added
    IN (serviceName :> kept) @@ bucket

\* RecordDailyStatus: the bucket after the update
RecordDailyStatus(bucket, serviceName, status) ==
    LET history == DailyHistory(bucket, serviceName)
        i == IndexOfDate(history, status.Date)
        added == IF i > 0 THEN [history EXCEPT ![i] = status]
                 ELSE Append(history, status)
        kept == IF Len(added) > keptDays
                THEN SubSeq(added, Len(added) - keptDays + 1, Len(added))
                ELSE added
    IN (serviceName :> kept) @@ bucket

\* the call is made: the bucket is updated and the call remembered
Record(serviceName, status) ==
    /\ daily' = [daily EXCEPT
                    !.bucket = RecordDailyStatus(@, serviceName, status),
                    !.last = [name |-> serviceName, status |-> status],
                    !.again = IF 0 < status.Date /\ status.Date < Today
                              THEN @ + 1 ELSE @,
                    !.early = IF status.Date < 1 THEN @ + 1 ELSE @]
    /\ UNCHANGED <<services, statuses, store, subMu, mu, subscribers, chans,
                   started, ctxDone, pc, args, statusCopy, rangeSubs, rangeIdx, tick,
                   cpc, cch, overall, rpc, rarg, snap, calls, heap, lim, hist, web>>

\* the checks counted in the service's entry for today, 0 without an entry
CountedToday(name) ==
    LET history == DailyHistory(daily.bucket, name)
        i == IndexOfDate(history, Today)
    IN IF i > 0 THEN history[i].TotalChecks ELSE 0

\* midnight passes; the recorder runs every hour, so the day that ends has
\* been recorded more than once
NextDay ==
    /\ Today < MaxDays
    /\ CountedToday(services[1].Name) = 2
    /\ clock' = clock + 1
    /\ UNCHANGED <<services, statuses, store, subMu, mu, subscribers, chans,
                   started, ctxDone, pc, args, statusCopy, rangeSubs, rangeIdx, tick,
                   cpc, cch, overall, rpc, rarg, snap, calls, heap, lim, hist, web,
                   daily>>

\* recordDailyHistory records today's date for a service: the first record
\* of the day counts one check, the later ones of the same day two.  The
\* second service is recorded on the first day only
RecordToday(t) ==
    LET name == services[t].Name IN
    /\ t = 1 \/ Today = 1
    /\ CountedToday(name) < 2
    /\ Record(name, [Date |-> Today, TotalChecks |-> CountedToday(name) + 1])
    /\ UNCHANGED clock

\* the dates of the first, the middle and the last but one entry
PastDates(history) ==
    {history[i].Date : i \in {1, Len(history) \div 2, Len(history) - 1} \ {0}}

\* a record for a date of the past that the history holds (made on the last
\* day of the run, when the history is full)
RecordAgain(date) ==
    LET name == services[1].Name IN
    /\ 0 < date /\ date < Today
    /\ IndexOfDate(DailyHistory(daily.bucket, name), date) > 0
    /\ Record(name, [Date |-> date, TotalChecks |-> 3])
    /\ UNCHANGED clock

\* a record for a date before every date the run has recorded (made on the
\* last day of the run, when the history is full)
RecordEarly ==
    /\ Today = MaxDays
    /\ daily.early < MaxEarlyDates
    /\ Record(services[1].Name, [Date |-> 0 - daily.early, TotalChecks |-> 1])
    /\ UNCHANGED clock

InitDaily ==
    /\ InitMonitor(Services(2), EmptyMap,
                   [checks |-> 0, vary |-> 0, restarts |-> 0, writeFailures |-> 0]
                   @@ NoClients)
    /\ web = NoWeb
    /\ daily = [bucket |-> EmptyMap,
                last |-> [name |-> "", status |-> [Date |-> 0, TotalChecks |-> 0]],
                again |-> 0, early |-> 0]

NextDaily ==
    \/ NextDay
    \/ \E t \in Tasks : RecordToday(t)
    \/ /\ Today = MaxDays
       /\ daily.again < MaxReplacements
       /\ \E date \in PastDates(DailyHistory(daily.bucket, services[1].Name)) :
             RecordAgain(date)
    \/ RecordEarly

SpecDaily == InitDaily /\ [][NextDaily]_vars

----------------------------------------------------------------------------
(* Claims about the bounded history and the uptime (SpecHistory) *)

\* C1: in every reachable state, a warm start included, every service's
\* history holds at most 90 points.
C1_HistoryAtMost90 ==
    \A n \in DOMAIN statuses : Len(statuses[n].History) <= 90

\* a process warm-started from a snapshot whose history is full, written
\* after the trim had dropped points
C1_Witness ==
    /\ hist.restarts = 1
    /\ ~started
    /\ hist.updates > 90
    /\ \E n \in DOMAIN statuses : Len(statuses[n].History) = 90

\* C2: an update of a history of n points leaves the last min(n+1, 90) points
\* of the old history followed by the new point, in the same order; the new
\* point is the last one.
C2_AppendDropsOldest ==
    [][hist'.updates = hist.updates + 1 =>
        LET name == hist'.lastUpdate.name
            a == hist'.lastUpdate.args
            old == statuses[name].History
            new == statuses'[name].History
            n == Len(old)
            k == Min(n + 1, 90)
        IN /\ Len(new) = k
           /\ \A i \in 1..(k - 1) : new[i] = old[n + 1 - k + i]
           /\ new[k].Status = a.status
           /\ new[k].StatusCode = a.statusCode
           /\ new[k].ResponseTimeMs = a.responseTime \div 1000
           /\ \A i \in 1..n : new[k].Timestamp > old[i].Timestamp]_vars

\* the 91st point has just been appended to a history that began with a
\* point that was not healthy
C2_Witness ==
    /\ hist.restarts = 0
    /\ hist.updates = 91
    /\ \E t \in Tasks :
          /\ pc[t] = "upd_persist"
          /\ Len(statuses[services[t].Name].History) = 90
          /\ statuses[services[t].Name].History[1].Status = StatusDown

\* C3: every service's uptime is 100 x (points operational or degraded) /
\* (points), and 100 when the history is empty.
C3_UptimeIsShareOfUpPoints ==
    \A n \in DOMAIN statuses :
        LET h == statuses[n].History
            u == statuses[n].Uptime
            up == Cardinality({i \in 1..Len(h) :
                     h[i].Status \in {StatusOperational, StatusDegraded}})
        IN /\ u.den > 0
           /\ IF Len(h) = 0
              THEN u.num = 100 * u.den
              ELSE u.num * Len(h) = 100 * up * u.den

\* a warm-started service whose three points are down, degraded, operational:
\* uptime 200/3
C3_Witness ==
    /\ hist.restarts = 1
    /\ \E n \in DOMAIN statuses :
          /\ Len(statuses[n].History) = 3
          /\ statuses[n].History[1].Status = StatusDown
          /\ statuses[n].History[2].Status = StatusDegraded
          /\ statuses[n].Uptime = [num |-> 200, den |-> 3]

----------------------------------------------------------------------------
(* Claims about the Aggregator (SpecOverall) *)

NumWithStatus(which) ==
    Cardinality({n \in DOMAIN statuses : statuses[n].Status = which})

\* C4: GetOverallStatus returns operational for no services, else down if
\* down > total/2 (integer division), else degraded if any service is down
\* or degraded, else operational.
C4_OverallFollowsMajorityPolicy ==
    [][rpc = "overall" /\ rpc' = "idle" =>
        LET total == Cardinality(DOMAIN statuses)
            down == NumWithStatus(StatusDown)
            degraded == NumWithStatus(StatusDegraded)
        IN overall' = CASE total = 0 -> "operational"
                        [] total > 0 /\ down > total \div 2 -> "down"
                        [] total > 0 /\ down <= total \div 2
                                     /\ (down > 0 \/ degraded > 0) -> "degraded"
                        [] OTHER -> "operational"]_vars

\* four services, two of them down, one degraded, one unknown: 2 > 4/2 does
\* not hold and the answer is degraded
C4_Witness ==
    /\ Cardinality(DOMAIN statuses) = 4
    /\ NumWithStatus(StatusDown) = 2
    /\ NumWithStatus(StatusDegraded) = 1
    /\ NumWithStatus(StatusUnknown) = 1
    /\ rpc = "idle"
    /\ overall = StatusDegraded

----------------------------------------------------------------------------
(* Claims about the Event Broadcaster (SpecFanout) *)

\* a task inside the range loop of notifySubscribers with a subscriber left
InLoop(t) == pc[t] = "ntf_send" /\ rangeIdx[t] <= Len(rangeSubs[t])

\* C5: publishing never blocks: a task that stands at a send of
\* notifySubscribers can always take that step, whatever the state of the
\* subscriber's buffer, and once the range is exhausted it can return.
C5_PublishNeverBlocks ==
    \A t \in Tasks :
        pc[t] = "ntf_send" =>
            IF InLoop(t) THEN ENABLED NotifySend(t) ELSE ENABLED NotifyRUnlock(t)

\* a publisher stands at the send to a subscriber whose buffer is full
C5_Witness ==
    \E t \in Tasks :
        /\ InLoop(t)
        /\ Len(chans[rangeSubs[t][rangeIdx[t]]].buf) = subscriberBuffer

\* the updates whose publication began after channel ch was registered and
\* has already passed ch, in the order of publication
PublishedTo(ch) ==
    LET after == SubSeq(hist.published, hist.since[ch] + 1, Len(hist.published))
        pending == \E t \in Tasks :
                      /\ pc[t] = "ntf_send"
                      /\ \E i \in rangeIdx[t]..Len(rangeSubs[t]) :
                            rangeSubs[t][i] = ch
    IN IF pending THEN SubSeq(after, 1, Len(after) - 1) ELSE after

\* C6: no buffer ever holds more than 100 entries, and the buffer of a
\* registered subscriber that has never read holds exactly the first 100
\* updates published after it subscribed (all of them while there are fewer).
C6_NeverReadHoldsFirst100 ==
    /\ \A ch \in 1..Len(chans) : Len(chans[ch].buf) <= 100
    /\ \A i \in 1..Len(subscribers) :
          LET ch == subscribers[i] IN
          hist.reads[ch] = 0 =>
              chans[ch].buf =
                  SubSeq(PublishedTo(ch), 1, Min(100, Len(PublishedTo(ch))))

\* a subscriber that never read has been passed by more than 100 updates
C6_Witness ==
    \E i \in 1..Len(subscribers) :
        /\ hist.reads[subscribers[i]] = 0
        /\ Len(PublishedTo(subscribers[i])) > 100
        /\ Len(chans[subscribers[i]].buf) = 100

\* C7: a publication ranges over exactly the registered subscribers, visits
\* them one by one without skipping any, and every visited subscriber whose
\* buffer has room gets the update appended, whatever the other buffers hold.
C7_EnqueuedToEveryoneWithRoom ==
    [][\A t \in Tasks :
          /\ pc'[t] = "ntf_send" => rangeSubs'[t] = subscribers'
          /\ (pc[t] = "upd_copy" /\ pc'[t] # pc[t]) => pc'[t] = "ntf_rlock"
          /\ (pc[t] = "ntf_rlock" /\ pc'[t] # pc[t]) =>
                pc'[t] = "ntf_send" /\ rangeIdx'[t] = 1
          /\ (pc[t] = "ntf_send" /\ pc'[t] # pc[t]) =>
                rangeIdx[t] = Len(rangeSubs[t]) + 1
          /\ (InLoop(t) /\ rangeIdx'[t] # rangeIdx[t]) =>
                LET ch == rangeSubs[t][rangeIdx[t]] IN
                /\ rangeIdx'[t] = rangeIdx[t] + 1
                /\ Len(chans[ch].buf) < 100 =>
                      chans'[ch].buf = Append(chans[ch].buf, Ref(statusCopy[t]))
      ]_vars

\* the first subscriber's buffer is full and lacks the update being
\* published, which the second subscriber has just been given
C7_Witness ==
    \E t \in Tasks :
        /\ pc[t] = "ntf_send"
        /\ Len(rangeSubs[t]) = 2
        /\ rangeIdx[t] = 3
        /\ Len(chans[rangeSubs[t][1]].buf) = 100
        /\ \A k \in 1..100 : chans[rangeSubs[t][1]].buf[k] # Ref(statusCopy[t])
        /\ \E k \in 1..Len(chans[rangeSubs[t][2]].buf) :
              chans[rangeSubs[t][2]].buf[k] = Ref(statusCopy[t])

----------------------------------------------------------------------------
(* Claims about Unsubscribe (SpecPubSub) *)

\* C8: Unsubscribe of a registered channel removes it from m.subscribers,
\* leaving the others in place, and closes it; nothing is sent on a closed
\* channel and no channel is closed twice; and once Unsubscribe has returned
\* nothing more is enqueued to the channel.
C8_UnsubscribeRemovesAndCloses ==
    [][/\ ~hist'.panicked
       /\ \A c \in Clients :
             (cpc[c] = "unsub_remove" /\ cpc'[c] = "unsubscribed"
                 /\ \E i \in 1..Len(subscribers) : subscribers[i] = cch[c]) =>
                /\ \A i \in 1..Len(subscribers') : subscribers'[i] # cch[c]
                /\ Len(subscribers') = Len(subscribers) - 1
                /\ \A i \in 1..Len(subscribers) :
                      subscribers[i] # cch[c] =>
                          \E j \in 1..Len(subscribers') :
                              subscribers'[j] = subscribers[i]
                /\ chans'[cch[c]].closed
       /\ \A c \in Clients :
             cpc[c] = "unsubscribed" =>
                /\ chans'[cch[c]].closed
                /\ Len(chans'[cch[c]].buf) <= Len(chans[cch[c]].buf)
      ]_vars

\* a client has unsubscribed a channel that holds an update, and a later
\* publication has run to its end
C8_Witness ==
    \E c \in Clients :
        /\ cpc[c] = "unsubscribed"
        /\ chans[cch[c]].closed
        /\ Len(chans[cch[c]].buf) = 1
        /\ subscribers = << >>
        /\ Len(hist.published) = 2
        /\ \A t \in Tasks : pc[t] = "select"

----------------------------------------------------------------------------
(* Claims about the Scheduler (Spec) *)

\* C9: no service ever has more than one check in progress, and a check of
\* a service starts only when none of its checks is in progress.
C9_OneCheckPerService ==
    [][\A t \in Tasks :
          /\ hist'.inflight[t] <= 1
          /\ hist'.inflight[t] > hist.inflight[t] =>
                hist.inflight[t] = 0 /\ pc[t] \in {"initial", "select"}
      ]_vars

\* the probe has outlasted the interval: a tick waits in ticker.C while the
\* service's check is still at its probe
C9_Witness ==
    \E t \in Tasks :
        /\ pc[t] = "probe"
        /\ tick[t] = "full"
        /\ hist.inflight[t] = 1

\* those who hold lock l
Holders(l) == l.writer \cup l.readers

\* C10: a task whose probe is running holds neither the Status Store lock
\* nor the subscriber-set lock, so while one task stays in its probe another
\* task that wants the Status Store lock gets it unless a third party has it.
C10_ProbeHoldsNoLock ==
    \A a \in Tasks :
        pc[a] = "probe" =>
            /\ TaskId(a) \notin Holders(mu) \cup Holders(subMu)
            /\ \A b \in Tasks \ {a} :
                  /\ pc[b] = "initial" /\ hist.checks < lim.checks =>
                        ENABLED InitialCheck(b)
                  /\ pc[b] = "upd_lock" /\ Holders(mu) \subseteq {TaskId(a)} =>
                        ENABLED UpdLock(b)

\* service a's probe is still out while service b has started a check after
\* it, been through updateStatus and come back to its select
C10_Witness ==
    /\ pc[1] = "probe"
    /\ hist.inflight[1] = 1
    /\ pc[2] = "select"
    /\ statuses[services[2].Name].LastCheck > 0
    /\ statuses[services[1].Name].LastCheck = 0

\* C11: Start puts every configured service's task at its initial check; the
\* first thing a task does is that check, before its ticker exists; and any
\* later check of a task starts from its select by taking the tick that
\* waits in its own ticker, leaving the other tickers alone.
C11_FirstCheckThenOwnTicks ==
    [][/\ (~started /\ started') => \A t \in Tasks : pc'[t] = "initial"
       /\ \A t \in Tasks :
             /\ (pc[t] = "initial" /\ pc'[t] # pc[t]) =>
                   /\ pc'[t] = "probe"
                   /\ tick[t] = "none"
                   /\ hist'.inflight[t] = hist.inflight[t] + 1
             /\ (pc[t] # "initial" /\ hist'.inflight[t] > hist.inflight[t]) =>
                   /\ pc[t] = "select"
                   /\ tick[t] = "full"
                   /\ tick'[t] = "empty"
                   /\ \A u \in Tasks \ {t} : tick'[u] = tick[u]
      ]_vars

\* a task is in its second check, started by a tick, while the other task
\* has finished only its initial check and no tick of its own has fired
C11_Witness ==
    \E t \in Tasks : \E u \in Tasks \ {t} :
        /\ pc[t] = "probe"
        /\ statuses[services[t].Name].LastCheck > 0
        /\ tick[t] = "empty"
        /\ pc[u] = "select"
        /\ tick[u] = "empty"
        /\ Len(statuses[services[u].Name].History) = 1

\* C12: once Stop has cancelled the shared context, every scheduler task
\* eventually returns from monitorService.
C12_StopTerminatesEveryTask ==
    ctxDone ~> (\A t \in Tasks : pc[t] = "done")

\* Stop has fired, both tasks have returned, and all the checks of the run
\* were made before they did
C12_Witness ==
    /\ ctxDone
    /\ \A t \in Tasks : pc[t] = "done" /\ tick[t] = "stopped"
    /\ hist.checks >= MaxChecks
    /\ hist.updates = hist.checks

\* C13: once the cancellation signal has fired, a task that stands at its
\* select, where it waits for the next tick, starts no further check.
C13_NoCheckAfterCancel ==
    [][\A t \in Tasks :
          (ctxDone /\ pc[t] = "select") => hist'.inflight[t] <= hist.inflight[t]
      ]_vars

----------------------------------------------------------------------------
(* Claims about the Status Store's lock (SpecStore) *)

\* the tasks that stand between m.mu.Lock() and m.mu.Unlock() of updateStatus
Mutating ==
    {t \in Tasks : pc[t] \in {"upd_mutate", "upd_history", "upd_uptime",
                              "upd_persist", "upd_copy"}}

\* an entry as a whole number of updates leaves it: the fields, the last
\* history point and the uptime belong to the same update
WholeEntry(s) ==
    /\ s.ResponseTimeMs = s.ResponseTime \div 1000
    /\ IF s.History = << >>
       THEN s.Status = "unknown" /\ s.LastCheck = 0 /\ s.Uptime = [num |-> 100, den |-> 1]
       ELSE LET p == s.History[Len(s.History)]
                up == Cardinality({i \in 1..Len(s.History) :
                                     s.History[i].Status \in {"operational", "degraded"}})
            IN /\ p.Status = s.Status
               /\ p.StatusCode = s.StatusCode
               /\ p.ResponseTimeMs = s.ResponseTimeMs
               /\ p.Timestamp = s.LastCheck + 1
               /\ s.Uptime.num * Len(s.History) = 100 * up * s.Uptime.den

\* C14: at most one task is inside updateStatus's locked section, no reader
\* is inside a Get operation while a task is, and every snapshot a reader
\* was handed shows an entry as a whole number of updates left it.
C14_StoreAccessedUnderLock ==
    /\ Cardinality(Mutating) <= 1
    /\ rpc # "idle" => Mutating = {}
    /\ \A i \in 1..Len(snap) : WholeEntry(snap[i])

\* a task has written the fields of an entry but not yet its history, another
\* task waits for the lock, and the reader holds a snapshot of that entry
\* from before the update
C14_Witness ==
    \E t \in Tasks : \E u \in Tasks \ {t} :
        /\ pc[t] = "upd_history"
        /\ pc[u] = "upd_lock"
        /\ ~WholeEntry(statuses[services[t].Name])
        /\ \E i \in 1..Len(snap) :
              /\ snap[i].Name = services[t].Name
              /\ snap[i].LastCheck < statuses[services[t].Name].LastCheck

----------------------------------------------------------------------------
(* Claims about the order of delivery (SpecPubSub) *)

\* what channel ch has delivered and holds, oldest first
Stream(ch) == hist.taken[ch] \o chans[ch].buf

----------------------------------------------------------------------------
(* Claims about the warm start (SpecRestore) *)

\* the configured service called name
Configured(name) == CHOOSE i \in 1..Len(services) : services[i].Name = name

\* what the claim expects GetStatus to report for a configured service,
\* read off the stored document
Reported(name) ==
    LET svc == services[Configured(name)]
        id == [Name |-> svc.Name, Group |-> svc.Group, URL |-> svc.URL,
               Description |-> svc.Description]
    IN IF name \in DOMAIN store
       THEN LET d == store[name]
                n == Len(d.history)
            IN id @@
               [History |-> [i \in 1..n |->
                    [Timestamp |-> d.history[i].timestamp,
                     ResponseTimeMs |-> d.history[i].response_time_ms,
                     Status |-> d.history[i].status,
                     StatusCode |-> d.history[i].status_code]],
                Uptime |-> d.uptime,
                LastCheck |-> d.last_check,
                ErrorMessage |-> IF "error_message" \in DOMAIN d
                                 THEN d.error_message ELSE "",
                Status |-> d.history[n].status,
                ResponseTimeMs |-> d.history[n].response_time_ms,
                ResponseTime |-> d.history[n].response_time_ms * 1000,
                StatusCode |-> d.history[n].status_code]
       ELSE id @@
            [History |-> << >>, Uptime |-> [num |-> 100, den |-> 1],
             LastCheck |-> 0, ErrorMessage |-> "", Status |-> "unknown",
             ResponseTimeMs |-> 0, ResponseTime |-> 0, StatusCode |-> 0]

\* C16: before any check has run, GetStatus of a configured service returns
\* the persisted history, uptime, last-check time and error message with the
\* status, response time and code of the last persisted point, or, with no
\* snapshot in the store, unknown with an empty history and uptime 100.
C16_WarmStartReportsSnapshot ==
    [][(rpc = "get" /\ rpc' = "idle" /\ hist.updates = 0
            /\ \E i \in 1..Len(services) : services[i].Name = rarg)
        => snap' = <<Reported(rarg)>>]_vars

\* the reader holds the snapshot of a service whose two persisted checks
\* ended with a failure, before anything was started
C16_Witness ==
    /\ ~started
    /\ Len(snap) = 1
    /\ Len(snap[1].History) = 2
    /\ snap[1].Status = "down"
    /\ snap[1].ErrorMessage = "connection refused"
    /\ snap[1].Uptime = [num |-> 50, den |-> 1]
    /\ snap[1].LastCheck = 3

----------------------------------------------------------------------------
(* Claims about failed writes (SpecWriteFail) *)

\* the update task t is carrying through updateStatus is not in the store:
\* its write has failed
Unwritten(t) ==
    LET name == services[t].Name IN
    /\ pc[t] \in {"upd_copy", "ntf_rlock", "ntf_send"}
    /\ name \in DOMAIN store => store[name].last_check # statuses[name].LastCheck

\* C17: the step at which a write fails leaves the applied update in the
\* Status Store and goes on to the copy; the update is then published like
\* any other, to every registered subscriber; and the store is written only
\* by the one write each update makes, so a failed write is not made again.
C17_FailedWriteIsNotFatal ==
    [][\A t \in Tasks :
          LET name == services[t].Name IN
          /\ (pc[t] = "upd_persist" /\ pc'[t] # pc[t]) =>
                /\ pc'[t] = "upd_copy"
                /\ statuses' = statuses
                /\ statuses[name].LastCheck = clock - 1
                /\ store' # store => store'[name].last_check = statuses[name].LastCheck
          /\ (Unwritten(t) /\ pc'[t] # pc[t]) =>
                \/ pc[t] = "upd_copy" /\ pc'[t] = "ntf_rlock"
                      /\ statusCopy'[t] = statuses[name]
                \/ pc[t] = "ntf_rlock" /\ pc'[t] = "ntf_send"
                      /\ rangeSubs'[t] = subscribers
                \/ pc[t] = "ntf_send" /\ rangeIdx[t] > Len(rangeSubs[t])
                      /\ \A i \in 1..Len(rangeSubs[t]) :
                            LET buf == chans[rangeSubs[t][i]].buf IN
                            /\ buf # << >>
                            /\ buf[Len(buf)] = Ref(statuses[name])
          /\ store' # store => \E u \in Tasks : pc[u] = "upd_persist"
      ]_vars

\* the task is back at its select, a subscriber holds an update of the
\* service that the store does not have, and no write is pending
C17_Witness ==
    \E t \in Tasks : \E ch \in 1..Len(chans) :
        LET name == services[t].Name
            buf == chans[ch].buf
        IN /\ pc[t] = "select"
           /\ hist.writeFailures = 1
           /\ Len(buf) = 2
           /\ buf[2].LastCheck = statuses[name].LastCheck
           /\ name \in DOMAIN store
           /\ store[name].last_check = buf[1].LastCheck

----------------------------------------------------------------------------
(* Claims about the probes (SpecProbes) *)

Classified == {StatusOperational, StatusDegraded, StatusDown}

\* C18: whatever a probe of any type observes, its path makes exactly one
\* updateStatus call, classified operational, degraded or down; when the
\* check is over, every check made so far has been applied once and has
\* left one history point with its classification; and a check starts only
\* as the initial check or on a tick, never as a retry.
C18_OneUpdatePerCheck ==
    [][\A t \in Tasks :
          LET name == services[t].Name IN
          /\ (pc[t] = "probe" /\ pc'[t] # "probe") =>
                /\ pc'[t] = "upd_lock"
                /\ calls'[t] = << >>
                /\ args'[t].status \in Classified
          /\ (pc[t] # "select" /\ pc'[t] = "select") =>
                /\ pc[t] = "ntf_send"
                /\ hist.updates = hist.checks
                /\ Len(statuses[name].History) = hist.checks
                /\ statuses[name].History[hist.checks].Status = args[t].status
                /\ statuses[name].Status = args[t].status
          /\ hist'.checks > hist.checks =>
                /\ hist'.checks = hist.checks + 1
                /\ hist.updates = hist.checks
                /\ \/ pc[t] = "initial"
                   \/ pc[t] = "select" /\ tick[t] = "full" /\ tick'[t] = "empty"
      ]_vars

\* a UDP probe that looks for a reply has timed out reading it and then
\* read a wrong one: two checks, two points, both down
C18_Witness ==
    \E t \in Tasks :
        LET st == statuses[services[t].Name] IN
        /\ services[t].Type = "udp"
        /\ pc[t] = "select"
        /\ hist.checks = 2
        /\ Len(st.History) = 2
        /\ st.History[1].Status = StatusDown
        /\ st.ErrorMessage = "unexpected response"

----------------------------------------------------------------------------
(* Claims about copies (SpecCopies) *)

\* C19: the entries in memory hold the Status Store's values throughout; a
\* step in which the holder of a handed-out copy writes to it (a field, a
\* history point, an append) leaves every entry as it was; and every other
\* step, the store's updates among them, leaves every copy handed out so far
\* as it was.
C19_CopiesAreDeep ==
    [][/\ \A n \in DOMAIN statuses :
             /\ View(heap, heap.entry[n]) = statuses[n]
             /\ View(heap', heap'.entry[n]) = statuses'[n]
       /\ hist'.writes > hist.writes =>
             \A n \in DOMAIN statuses :
                View(heap', heap'.entry[n]) = View(heap, heap.entry[n])
       /\ hist'.writes = hist.writes =>
             \A k \in 1..Len(hist.handed) :
                View(heap', hist.handed[k].obj) = View(heap, hist.handed[k].obj)
      ]_vars

\* the reader holds a snapshot of a full history taken after the first
\* check and has written to its first point; the store has since been
\* updated by the second check, and does not show the write
C19_Witness ==
    \E k \in 1..Len(hist.handed) :
        LET was == hist.handed[k].was
            now == View(heap, hist.handed[k].obj)
            st == statuses[was.Name]
        IN /\ hist.handed[k].kind = "snapshot"
           /\ hist.writes = 1
           /\ hist.updates = 2
           /\ st.LastCheck > was.LastCheck
           /\ was.LastCheck > 0
           /\ now.History[1] = Edited
           /\ Edited \notin {st.History[i] : i \in 1..Len(st.History)}
           /\ Len(st.History) = maxHistory

----------------------------------------------------------------------------
(* Claims about the names in the Status Store (SpecNames) *)

ConfiguredNames == {services[i].Name : i \in 1..Len(services)}

\* C20: the names in the Status Store are the configured names, whatever
\* the store holds, and no step changes them; GetStatus returns a snapshot
\* of the service asked for when the name is configured and nil otherwise;
\* GetAllStatuses returns as many snapshots as there are configured
\* services, one of each.  (Configured names are distinct, as the data
\* model has it.)
C20_NamesFixedAtConstruction ==
    [][/\ DOMAIN statuses = ConfiguredNames
       /\ DOMAIN statuses' = DOMAIN statuses
       /\ (rpc = "get" /\ rpc' = "idle") =>
             IF rarg \in ConfiguredNames
             THEN Len(snap') = 1 /\ snap'[1].Name = rarg
             ELSE snap' = << >>
       /\ (rpc = "all" /\ rpc' = "idle") =>
             /\ Len(snap') = Len(services)
             /\ \A i \in 1..Len(services) :
                   Cardinality({j \in 1..Len(snap') :
                                   snap'[j].Name = services[i].Name}) = 1
      ]_vars

\* only the first service is configured and has been checked; the store
\* holds a document of the second, left by an earlier process, and the
\* reader that asked for the second got nil
C20_Witness ==
    /\ Len(services) = 1
    /\ hist.updates = 1
    /\ ServiceNames[2] \in DOMAIN store
    /\ rarg = ServiceNames[2]
    /\ rpc = "idle"
    /\ snap = << >>

----------------------------------------------------------------------------
(* Claims about what the probes report (SpecProbes) *)

\* C21: an entry whose classification is operational has an empty error
\* message, whatever the probe type and the path that classified it.
C21_OperationalHasNoError ==
    \A n \in DOMAIN statuses :
        statuses[n].Status = StatusOperational => statuses[n].ErrorMessage = ""

\* C22: whenever checkService is about to run for a service, what it does on
\* every observation is what the probe of the service's type does: each of
\* the twenty types has its own probe, and an unset or unrecognised type is
\* probed by the http probe.
C22_EachTypeItsOwnProbe ==
    \A t \in Tasks :
        pc[t] = "probe" =>
            \A svc \in {services[t]} \cup
                        (IF services[t].Type = "http"
                         THEN {[services[t] EXCEPT !.Type = ""]} ELSE {}) :
            \A o \in ObservationsOf(svc) :
                LET ran == checkService(svc, o) IN
                /\ svc.Type = "http" => ran = checkHTTP(svc, o)
                /\ svc.Type = "tcp" => ran = checkTCP(svc, o)
                /\ svc.Type = "udp" => ran = checkUDP(svc, o)
                /\ svc.Type = "icmp" => ran = checkICMP(svc, o)
                /\ svc.Type = "dns" => ran = checkDNS(svc, o)
                /\ svc.Type = "websocket" => ran = checkWebSocket(svc, o)
                /\ svc.Type = "grpc" => ran = checkGRPC(svc, o)
                /\ svc.Type = "quic" => ran = checkQUIC(svc, o)
                /\ svc.Type = "smtp" => ran = checkSMTP(svc, o)
                /\ svc.Type = "ssh" => ran = checkSSH(svc, o)
                /\ svc.Type = "tls" => ran = checkTLS(svc, o)
                /\ svc.Type = "pop3" => ran = checkPOP3(svc, o)
                /\ svc.Type = "imap" => ran = checkIMAP(svc, o)
                /\ svc.Type = "ftp" => ran = checkFTP(svc, o)
                /\ svc.Type = "ntp" => ran = checkNTP(svc, o)
                /\ svc.Type = "ldap" => ran = checkLDAP(svc, o)
                /\ svc.Type = "redis" => ran = checkRedis(svc, o)
                /\ svc.Type = "mongodb" => ran = checkMongoDB(svc, o)
                /\ svc.Type = "mysql" => ran = checkMySQL(svc, o)
                /\ svc.Type = "postgres" => ran = checkPostgres(svc, o)
                /\ svc.Type \notin KnownTypes => ran = checkHTTP(svc, o)

\* a service of a type the program does not know was probed and got the
\* http probe's verdict on a wrong status code
C22_Witness ==
    \E t \in Tasks :
        LET st == statuses[services[t].Name] IN
        /\ services[t].Type = "carrier-pigeon"
        /\ pc[t] = "select"
        /\ hist.checks = 1
        /\ st.Status = StatusDown
        /\ st.ErrorMessage = "unexpected status code: 503"

\* the response arrived: building and sending the request did not fail
Responded(o) == o.fail \notin {"request", "dial", "write", "timeout"}

\* the body of the response holds the text the service expects, or the
\* service expects none
BodyHolds(svc, o) == svc.ExpectedBody = "" \/ o.reply \in {"match", "late"}

\* C23: the http probe classifies a response with the expected status code
\* whose body holds the expected text (when one is configured) by its
\* response time - operational under 2 s, degraded "slow response time" from
\* 2 s to under 5 s, degraded "very slow response time" from 5 s - and
\* classifies a connection error, a status mismatch or a body mismatch down.
C23_HTTPClassification ==
    \A t \in Tasks :
        (pc[t] = "probe" /\ services[t].Type = "http") =>
            \A o \in ObservationsOf(services[t]) :
                LET svc == services[t]
                    call == Head(checkService(svc, o))
                    rt == o.responseTime
                IN
                /\ (Responded(o) /\ o.code = svc.ExpectedStatus /\ BodyHolds(svc, o)) =>
                      /\ rt < 2000000 => call.status = StatusOperational
                      /\ (2000000 <= rt /\ rt < 5000000) =>
                            /\ call.status = StatusDegraded
                            /\ call.errMsg = "slow response time"
                      /\ rt >= 5000000 =>
                            /\ call.status = StatusDegraded
                            /\ call.errMsg = "very slow response time"
                /\ o.fail \in {"dial", "write", "timeout"} => call.status = StatusDown
                /\ (Responded(o) /\ o.code # svc.ExpectedStatus) =>
                      call.status = StatusDown
                /\ (Responded(o) /\ ~BodyHolds(svc, o)) => call.status = StatusDown

----------------------------------------------------------------------------
(* Claims about the tls probe (SpecProbes) *)

\* C24, as stated: after a verified handshake with a certificate present the
\* tls probe classifies by the whole days d until expiry and the warn-days w
\* (30 when unset): down when d <= 7, with the days remaining in the message
\* while the certificate has a whole day left; degraded when 7 < d <= w;
\* operational when d > w; a handshake error or a missing certificate is
\* down.
C24_TLSClassificationAsStated ==
    \A t \in Tasks :
        (pc[t] = "probe" /\ services[t].Type = "tls") =>
            \A o \in ObservationsOf(services[t]) :
                LET svc == services[t]
                    call == Head(checkService(svc, o))
                    d == WholeDays(o.hours)
                    w == IF svc.TLSWarnDays = 0 THEN 30 ELSE svc.TLSWarnDays
                IN
                IF o.fail = "dial" \/ o.reply = "empty"
                THEN call.status = StatusDown
                ELSE /\ d <= 7 => call.status = StatusDown
                     /\ (0 < d /\ d <= 7) =>
                           call.errMsg = "certificate expires in " \o ToString(d)
                                             \o " days"
                     /\ (7 < d /\ d <= w) => call.status = StatusDegraded
                     /\ d > w => call.status = StatusOperational

\* C24, amended: as above, but operational only when d > w and d > 7 - with
\* warn-days under 7 a certificate with d in w+1..7 days left is down.
C24_TLSClassification ==
    \A t \in Tasks :
        (pc[t] = "probe" /\ services[t].Type = "tls") =>
            \A o \in ObservationsOf(services[t]) :
                LET svc == services[t]
                    call == Head(checkService(svc, o))
                    d == WholeDays(o.hours)
                    w == IF svc.TLSWarnDays = 0 THEN 30 ELSE svc.TLSWarnDays
                IN
                IF o.fail = "dial" \/ o.reply = "empty"
                THEN call.status = StatusDown
                ELSE /\ d <= 7 => call.status = StatusDown
                     /\ (0 < d /\ d <= 7) =>
                           call.errMsg = "certificate expires in " \o ToString(d)
                                             \o " days"
                     /\ (7 < d /\ d <= w) => call.status = StatusDegraded
                     /\ (d > w /\ d > 7) => call.status = StatusOperational

\* a certificate with 7 whole days left was probed with warn-days 5 and
\* classified down
C24_Witness ==
    \E t \in Tasks :
        LET st == statuses[services[t].Name] IN
        /\ services[t].Type = "tls"
        /\ services[t].TLSWarnDays = 5
        /\ pc[t] = "select"
        /\ hist.checks = 1
        /\ st.Status = StatusDown
        /\ st.StatusCode = 7
        /\ st.ErrorMessage = "certificate expires in 7 days"

----------------------------------------------------------------------------
(* Claims about the udp probe (SpecProbes) *)

\* C25, as stated: once connected, the udp probe classifies down exactly when
\* the write fails, or a read fails without timing out while a response was
\* required, or a pattern is configured and no reply holds it; with no
\* pattern a read timeout is operational, and an acceptable reply is
\* operational when under 500 ms and degraded otherwise.
C25_UDPClassificationAsStated ==
    \A t \in Tasks :
        (pc[t] = "probe" /\ services[t].Type = "udp") =>
            \A o \in {x \in ObservationsOf(services[t]) : x.fail # "dial"} :
                LET svc == services[t]
                    call == Head(checkService(svc, o))
                    required == svc.UDPExpected # ""
                    replied == o.fail \notin {"write", "read", "timeout"}
                    found == replied /\ o.reply = "match"
                IN
                /\ call.status = StatusDown <=>
                      \/ o.fail = "write"
                      \/ o.fail = "read" /\ required
                      \/ required /\ o.fail \in {"timeout", "none", "request"} /\ ~found
                /\ (~required /\ o.fail = "timeout") => call.status = StatusOperational
                /\ (replied /\ (required => found)) =>
                      call.status = IF o.responseTime < 500000
                                    THEN StatusOperational ELSE StatusDegraded

\* C25, amended: as above, but a read that fails without timing out is
\* classified down whether or not a response was required.
C25_UDPClassification ==
    \A t \in Tasks :
        (pc[t] = "probe" /\ services[t].Type = "udp") =>
            \A o \in {x \in ObservationsOf(services[t]) : x.fail # "dial"} :
                LET svc == services[t]
                    call == Head(checkService(svc, o))
                    required == svc.UDPExpected # ""
                    replied == o.fail \notin {"write", "read", "timeout"}
                    found == replied /\ o.reply = "match"
                IN
                /\ call.status = StatusDown <=>
                      \/ o.fail = "write"
                      \/ o.fail = "read"
                      \/ required /\ o.fail \in {"timeout", "none", "request"} /\ ~found
                /\ (~required /\ o.fail = "timeout") => call.status = StatusOperational
                /\ (replied /\ (required => found)) =>
                      call.status = IF o.responseTime < 500000
                                    THEN StatusOperational ELSE StatusDegraded

\* a udp service that expects no reply was probed, the read failed without
\* timing out, and the service was classified down
C25_Witness ==
    \E t \in Tasks :
        LET st == statuses[services[t].Name] IN
        /\ services[t].Type = "udp"
        /\ services[t].UDPExpected = ""
        /\ pc[t] = "select"
        /\ hist.checks = 1
        /\ st.Status = StatusDown
        /\ st.ErrorMessage = "read error: connection reset by peer"

----------------------------------------------------------------------------
(* Claims about the quic probe (SpecProbes) *)

\* C26: once its probe packet is on the way the quic probe classifies a read
\* timeout degraded, a non-empty reply operational unless the response time
\* is over 500 ms (then degraded), and a write error, a read error that is
\* no timeout or an empty reply down.
C26_QUICClassification ==
    \A t \in Tasks :
        (pc[t] = "probe" /\ services[t].Type = "quic") =>
            \A o \in ObservationsOf(services[t]) :
                LET call == Head(checkService(services[t], o)) IN
                /\ o.fail = "timeout" => call.status = StatusDegraded
                /\ (o.fail = "none" /\ o.reply # "empty") =>
                      call.status = IF o.responseTime > 500000
                                    THEN StatusDegraded ELSE StatusOperational
                /\ o.fail \in {"write", "read"} => call.status = StatusDown
                /\ (o.fail = "none" /\ o.reply = "empty") => call.status = StatusDown

\* a quic service answered in exactly 500 ms and was classified operational,
\* after a check that was classified degraded
C26_Witness ==
    \E t \in Tasks :
        LET st == statuses[services[t].Name] IN
        /\ services[t].Type = "quic"
        /\ pc[t] = "select"
        /\ hist.checks = 2
        /\ Len(st.History) = 2
        /\ st.History[1].Status = StatusDegraded
        /\ st.Status = StatusOperational
        /\ st.ResponseTime = 500000

----------------------------------------------------------------------------
(* Claims about the banner probes (SpecProbes) *)

BannerTypes == {"smtp", "ssh", "pop3", "imap", "ftp"}

\* C27: each banner probe classifies down when the banner cannot be read or
\* fails the test of its protocol (smtp and ftp: begins with "220"; ssh:
\* begins with "SSH-"; pop3: begins with "+OK"; imap: contains "OK"), and
\* otherwise operational, or degraded once the response time reaches the
\* slow threshold of the protocol (1 s; 500 ms for ssh).
C27_BannerClassification ==
    \A t \in Tasks :
        (pc[t] = "probe" /\ services[t].Type \in BannerTypes) =>
            \A o \in ObservationsOf(services[t]) :
                LET svc == services[t]
                    call == Head(checkService(svc, o))
                    banner == Banner(svc, o)
                    unread == o.fail \in {"dial", "read", "timeout"}
                    passes == CASE svc.Type \in {"smtp", "ftp"} -> HasPrefix(banner, "220")
                                [] svc.Type = "ssh" -> HasPrefix(banner, "SSH-")
                                [] svc.Type = "pop3" -> HasPrefix(banner, "+OK")
                                [] svc.Type = "imap" -> Contains(banner, "OK")
                    slowAt == IF svc.Type = "ssh" THEN 500000 ELSE 1000000
                IN call.status = IF unread \/ ~passes THEN StatusDown
                                 ELSE IF o.responseTime >= slowAt THEN StatusDegraded
                                 ELSE StatusOperational

\* an ssh server whose banner was wrong at the first check greeted properly
\* at the second, in exactly 500 ms, and was classified degraded
C27_Witness ==
    \E t \in Tasks :
        LET st == statuses[services[t].Name] IN
        /\ services[t].Type = "ssh"
        /\ pc[t] = "select"
        /\ hist.checks = 2
        /\ Len(st.History) = 2
        /\ st.History[1].Status = StatusDown
        /\ st.Status = StatusDegraded
        /\ st.ResponseTime = 500000
        /\ st.ErrorMessage = "slow SSH response"

----------------------------------------------------------------------------
(* Claims about the order of the steps of updateStatus (SpecOrder) *)

\* the entry of the task's service holds the whole update: the six fields,
\* the new point as the last of at most maxHistory, the uptime of that history
FullyUpdated(t) ==
    LET st == statuses[services[t].Name]
        a == args[t]
        n == Len(st.History)
    IN /\ st.Status = a.status
       /\ st.ResponseTime = a.responseTime
       /\ st.ResponseTimeMs = Milliseconds(a.responseTime)
       /\ st.StatusCode = a.statusCode
       /\ st.ErrorMessage = a.errMsg
       /\ st.LastCheck = clock - 1
       /\ n \in 1..maxHistory
       /\ st.History[n] = HistoryPoint(a.status, a.responseTime, a.statusCode, clock)
       /\ st.Uptime = Rat(CountUp(st.History) * 100, n)

\* C28: in every updateStatus the entry in memory is fully updated (fields,
\* appended point, trim, uptime) before the write to the database, only that
\* write changes the database and it stores the fully updated entry, and
\* nothing is sent to a subscriber before the write has returned: what is
\* sent is the entry the database then holds.
C28_UpdateThenPersistThenPublish ==
    [][\A t \in Tasks :
          LET name == services[t].Name
              st == statuses[name]
          IN
          /\ store' # store =>
                \E u \in Tasks : pc[u] = "upd_persist" /\ pc'[u] = "upd_copy"
          /\ (pc[t] = "upd_persist" /\ pc'[t] # pc[t]) =>
                /\ FullyUpdated(t)
                /\ statuses' = statuses
                /\ chans' = chans
                /\ store'[name] = Marshal(name, CheckPoints(st.History), st.Uptime,
                                          st.LastCheck, st.ErrorMessage)
          /\ statuses'[name] # st =>
                /\ pc[t] \in {"upd_mutate", "upd_history", "upd_uptime"}
                /\ store' = store
                /\ chans' = chans
          /\ (pc[t] = "ntf_send" /\ chans' # chans) =>
                /\ name \in DOMAIN store
                /\ Unmarshal(store[name]).LastCheck = statusCopy[t].LastCheck
                /\ Unmarshal(store[name]).Uptime = statusCopy[t].Uptime
                /\ Unmarshal(store[name]).History = CheckPoints(statusCopy[t].History)
                /\ statusCopy[t] = st
      ]_vars

\* the service started with a full history; its first check found it down,
\* the database holds the trimmed history with the new point and the new
\* uptime, and the subscriber has been sent that update
C28_Witness ==
    \E t \in Tasks : \E ch \in 1..Len(chans) :
        LET name == services[t].Name
            st == statuses[name]
        IN /\ pc[t] = "select"
           /\ hist.checks = 1
           /\ Len(st.History) = maxHistory
           /\ st.Status = StatusDown
           /\ st.Uptime = Rat((maxHistory - 1) * 100, maxHistory)
           /\ name \in DOMAIN store
           /\ Len(store[name].history) = maxHistory
           /\ store[name].last_check = st.LastCheck
           /\ store[name].uptime = st.Uptime
           /\ Len(chans[ch].buf) = 1
           /\ chans[ch].buf[1] = Ref(st)

----------------------------------------------------------------------------
(* Claims about the two locks (SpecLocks) *)

\* what the holder of a lock does next
HolderStep(who) ==
    \/ \E t \in Tasks :
          /\ who = TaskId(t)
          /\ UpdMutate(t) \/ UpdPersist(t) \/ UpdCopyUnlock(t)
                \/ NotifySend(t) \/ NotifyRUnlock(t)
    \/ \E c \in Clients :
          /\ who = ClientId(c)
          /\ SubscribeAppend(c) \/ UnsubscribeRemove(c)
    \/ /\ who = ReaderId
       /\ GetStatusReturn \/ GetAllReturn \/ OverallReturn

\* C29: updateStatus takes the copy it broadcasts while it holds the Status
\* Store lock and has released that lock when it sends; nobody holds the
\* Status Store lock and the subscriber-set lock together; and whoever holds
\* either lock can take its next step, so every lock is released and no
\* interleaving of updates, reads, Subscribe and Unsubscribe deadlocks.
C29_LocksNeverNested ==
    /\ \A t \in Tasks :
          /\ pc[t] = "upd_copy" => mu.writer = {TaskId(t)}
          /\ pc[t] \in {"ntf_rlock", "ntf_send"} =>
                /\ TaskId(t) \notin Holders(mu)
                /\ statusCopy[t] = statuses[services[t].Name]
          /\ pc[t] = "ntf_send" => TaskId(t) \in subMu.readers
    /\ Holders(mu) \cap Holders(subMu) = {}
    /\ \A who \in Holders(mu) \cup Holders(subMu) : ENABLED HolderStep(who)

\* one task sends to the subscriber under the subscriber-set lock while the
\* other task holds the Status Store lock and the reader waits for it
C29_Witness ==
    \E a, b \in Tasks :
        /\ pc[a] = "ntf_send"
        /\ rangeSubs[a] # << >>
        /\ TaskId(a) \in subMu.readers
        /\ pc[b] = "upd_copy"
        /\ mu.writer = {TaskId(b)}
        /\ rpc = "idle"
        /\ snap # << >>

----------------------------------------------------------------------------
(* Claims about cancellation and the probes (SpecCancel) *)

\* C30: a probe that is in flight when the cancellation signal fires is not
\* aborted by it: when it returns, what it reports is what the probe reports
\* on an answer, a failure or a timeout of its own.
C30_CancelLeavesProbeAlone ==
    [][\A t \in Tasks :
          (pc[t] = "probe" /\ pc'[t] = "upd_lock" /\ ctxDone /\ t \in hist.caught) =>
              \E o \in ObservationsOf(services[t]) :
                  args'[t] = Head(checkService(services[t], o))
      ]_vars

----------------------------------------------------------------------------
(* Claims about the entries of the Status Store (SpecStore) *)

\* the classification, the code and the milliseconds of the entry are those
\* of its last history point
AgreesWithLastPoint(s) ==
    LET p == s.History[Len(s.History)] IN
    /\ s.Status = p.Status
    /\ s.StatusCode = p.StatusCode
    /\ s.ResponseTimeMs = p.ResponseTimeMs

\* C31: every entry with a history that no task is in the middle of updating
\* under the lock, restored entries and updated ones alike, has the status,
\* the status code and the response time in milliseconds of its last history
\* point; so has every entry a reader was handed.
C31_EntryAgreesWithLastPoint ==
    /\ \A n \in DOMAIN statuses :
          (/\ statuses[n].History # << >>
           /\ \A t \in Mutating : services[t].Name # n)
          => AgreesWithLastPoint(statuses[n])
    /\ \A i \in 1..Len(snap) :
          snap[i].History # << >> => AgreesWithLastPoint(snap[i])

\* the service restored as down has been found healthy since, the other one
\* has had its first update, and a reader holds both entries
C31_Witness ==
    LET a == statuses[ServiceNames[1]]
        b == statuses[ServiceNames[2]]
    IN /\ Mutating = {}
       /\ Len(a.History) = 2
       /\ a.History[1].Status = StatusDown
       /\ a.Status = StatusOperational
       /\ Len(b.History) = 1
       /\ Len(snap) = 2
       /\ \A i \in 1..2 : snap[i].History # << >>

\* the names whose entry a step changes
ChangedEntries == {n \in DOMAIN statuses : statuses'[n] # statuses[n]}

\* the names for which a task is inside updateStatus, holding the write lock
BeingUpdated == {services[t].Name : t \in Mutating}

\* C32: a step changes no entry but the one of the service updateStatus was
\* called for (status, history, uptime, last check and error message of every
\* other service stay as they are), it adds and removes no entry, and the
\* updated entry keeps its name, group, URL and description.
C32_UpdateChangesOnlyItsEntry ==
    [][/\ DOMAIN statuses' = DOMAIN statuses
       /\ ChangedEntries \subseteq BeingUpdated
       /\ \A n \in ChangedEntries :
             /\ statuses'[n].Name = statuses[n].Name
             /\ statuses'[n].Group = statuses[n].Group
             /\ statuses'[n].URL = statuses[n].URL
             /\ statuses'[n].Description = statuses[n].Description]_vars

\* both services have been updated, the second one last, and the first one
\* still has the two points it had before the update of the second
C32_Witness ==
    LET a == statuses[ServiceNames[1]]
        b == statuses[ServiceNames[2]]
    IN /\ Mutating = {}
       /\ Len(a.History) = 2
       /\ Len(b.History) = 1
       /\ b.LastCheck > a.LastCheck
       /\ a.Group = "core"
       /\ b.Group = "core"

----------------------------------------------------------------------------
(* Claims about the persisted snapshot (SpecRoundTrip) *)

\* the tasks whose update is applied to the entry and not yet written
Unpersisted == {t \in Tasks : pc[t] \in {"upd_history", "upd_uptime", "upd_persist"}}

\* what SaveServiceCheckHistory is handed for an entry
HandedToStore(st) ==
    [ServiceName |-> st.Name, History |-> CheckPoints(st.History),
     Uptime |-> st.Uptime, LastCheck |-> st.LastCheck,
     ErrorMessage |-> st.ErrorMessage]

\* C33: with every write succeeding, the snapshot persisted for an updated
\* service whose last update has been written holds the history, the uptime,
\* the last-check time and the error message the service has in memory.
C33_PersistedEqualsMemory ==
    \A t \in Tasks \ Unpersisted :
        LET n == services[t].Name IN
        statuses[n].History # << >> =>
            /\ n \in DOMAIN store
            /\ GetAllServiceCheckHistory(store)[n] = HandedToStore(statuses[n])

\* what C34 compares of an entry GetStatus returns
Compared(st) ==
    [History |-> st.History, Uptime |-> st.Uptime, LastCheck |-> st.LastCheck,
     ErrorMessage |-> st.ErrorMessage, Status |-> st.Status,
     StatusCode |-> st.StatusCode, ResponseTimeMs |-> st.ResponseTimeMs]

\* C34: when every update applied to the entries has been persisted, a
\* Monitor constructed over the same store and the same services has, for
\* every service, the history, the uptime, the last-check time, the error
\* message, the status, the status code and the response time in
\* milliseconds that the old Monitor had.
C34_RestartRoundTrip ==
    [][(hist.restarts' = hist.restarts + 1 /\ Unpersisted = {})
        => \A n \in DOMAIN statuses :
              /\ n \in DOMAIN statuses'
              /\ Compared(statuses'[n]) = Compared(statuses[n])]_vars

----------------------------------------------------------------------------
(* Claims about updateStatus for an unknown name (SpecUnknown) *)

\* the callers of updateStatus whose name has no entry
Strangers == {t \in Tasks : services[t].Name \notin DOMAIN statuses}

\* C35: updateStatus for a name that has no entry returns from the lookup:
\* the step after the lock leaves the entries, the database and the channels
\* as they are and releases the lock, the call never reaches the write to
\* the database or the broadcast, and nothing is ever stored or published
\* under that name.
C35_UnknownNameIsNoOp ==
    /\ [](\A t \in Strangers :
             /\ pc[t] \notin {"upd_history", "upd_uptime", "upd_persist", "upd_copy",
                              "ntf_rlock", "ntf_send", "ntf_runlock"}
             /\ services[t].Name \notin DOMAIN store
             /\ \A i \in 1..Len(chans) : \A j \in 1..Len(chans[i].buf) :
                   chans[i].buf[j].Name # services[t].Name)
    /\ [][\A t \in Strangers :
             (pc[t] = "upd_mutate" /\ pc'[t] # pc[t]) =>
                 /\ statuses' = statuses
                 /\ store' = store
                 /\ chans' = chans
                 /\ subscribers' = subscribers
                 /\ hist'.published = hist.published
                 /\ mu' = Unlocked
                 /\ pc'[t] = "select"]_vars

\* the call for the unknown name has returned, a subscriber is registered
\* and has been sent an update of the known service, and the database holds
\* the known service alone
C35_Witness ==
    /\ Strangers = {2}
    /\ pc[2] = "select"
    /\ hist.checks = MaxChecksUnknown
    /\ hist.inflight[2] = 0
    /\ DOMAIN store = {ServiceNames[1]}
    /\ Len(chans) = 1
    /\ Len(chans[1].buf) = 1

----------------------------------------------------------------------------
(* Claims about Unsubscribe (SpecUnsubscribe) *)

\* the sequence without the channel, the rest in the order it had
Without(s, ch) == SelectSeq(s, LAMBDA x : x # ch)

\* C36: Unsubscribe of a channel that is not registered (it was never
\* subscribed, or it is unsubscribed already) leaves the registry and every
\* channel as they are, so no channel is closed twice; Unsubscribe of a
\* registered channel closes that channel alone and leaves the other
\* subscribers registered in the order they had.
C36_UnsubscribeOnlyRegistered ==
    /\ [](~hist.panicked)
    /\ [][\A c \in Clients :
             (cpc[c] = "unsub_remove" /\ cpc'[c] # cpc[c]) =>
                 IF \E i \in 1..Len(subscribers) : subscribers[i] = cch[c]
                 THEN /\ subscribers' = Without(subscribers, cch[c])
                      /\ Len(subscribers') = Len(subscribers) - 1
                      /\ ~chans[cch[c]].closed
                      /\ chans' = [chans EXCEPT ![cch[c]].closed = TRUE]
                 ELSE /\ subscribers' = subscribers
                      /\ chans' = chans]_vars

\* three clients subscribed and the second one unsubscribed; Unsubscribe
\* was called twice more, with channels that were not registered (the
\* closed one again, or the one a client made itself): the first and the
\* third subscriber are registered, in that order, and only the channel of
\* the second is closed
C36_Witness ==
    /\ Len(chans) = MaxRegistered + MaxOwnChannels
    /\ hist.unsubscribes >= 3
    /\ \A c \in Clients : cpc[c] \in {"subscribed", "unsubscribed"}
    /\ Len(subscribers) = 2
    /\ \E c \in Clients :
          /\ cpc[c] = "unsubscribed"
          /\ ~chans[cch[c]].closed
    /\ \E c \in Clients :
          /\ cpc[c] = "unsubscribed"
          /\ chans[cch[c]].closed
          /\ \E i, j \in 1..Len(chans) :
                i < cch[c] /\ cch[c] < j /\ subscribers = <<i, j>>

----------------------------------------------------------------------------
(* Claims about the unknown classification (SpecRoundTrip, SpecOverall) *)

\* C37: an entry classified unknown is the entry of a cold start that no
\* update has touched (no history, no check time); within one process an
\* entry that is not unknown never becomes unknown, the update that is
\* applied to an entry leaves it not unknown, and a process constructed over
\* a store that holds a non-empty history for a service starts with that
\* service not unknown.
C37_UnknownOnlyBeforeFirstUpdate ==
    /\ [](\A n \in DOMAIN statuses :
             statuses[n].Status = StatusUnknown =>
                 /\ statuses[n].History = << >>
                 /\ statuses[n].LastCheck = 0)
    /\ [][\A n \in DOMAIN statuses :
             /\ (/\ hist.restarts' = hist.restarts
                 /\ statuses[n].Status # StatusUnknown \/ statuses'[n] # statuses[n])
                    => statuses'[n].Status # StatusUnknown
             /\ (/\ hist.restarts' # hist.restarts
                 /\ n \in DOMAIN store
                 /\ GetAllServiceCheckHistory(store)[n].History # << >>)
                    => statuses'[n].Status # StatusUnknown]_vars

\* the service was unknown on the cold start, its first check classified it,
\* and the process constructed over the store after that starts with the
\* restored classification before anything has run
C37_Witness ==
    /\ hist.restarts = 1
    /\ ~started
    /\ \A n \in DOMAIN statuses :
          /\ statuses[n].Status = StatusDown
          /\ Len(statuses[n].History) = 1

\* C38: GetOverallStatus returns operational, degraded or down, never
\* unknown; an unknown service weighs what an operational one weighs (it is
\* one of the total, and neither down nor degraded), so with every service
\* unknown or operational, and on a cold start in particular, the answer is
\* operational.
C38_OverallIsNeverUnknown ==
    [][(rpc = "overall" /\ rpc' = "idle") =>
          LET total == Cardinality(DOMAIN statuses)
              down == NumWithStatus(StatusDown)
              degraded == NumWithStatus(StatusDegraded)
              rest == NumWithStatus(StatusUnknown) + NumWithStatus(StatusOperational)
          IN /\ overall' \in {StatusOperational, StatusDegraded, StatusDown}
             /\ total = down + degraded + rest
             /\ overall' = StatusDown <=> 2 * down > down + degraded + rest
             /\ overall' = StatusOperational <=> down + degraded = 0
             /\ NumWithStatus(StatusUnknown) = total => overall' = StatusOperational
      ]_vars

\* three services on a cold start, none checked yet: the answer was
\* operational
C38_Witness ==
    /\ Cardinality(DOMAIN statuses) = 3
    /\ NumWithStatus(StatusUnknown) = 3
    /\ rpc = "idle"
    /\ overall = StatusOperational

----------------------------------------------------------------------------
(* Claims about the write endpoints of the web server (SpecAuth) *)

\* create, update or delete an incident; create or update a maintenance
\* window
WriteRequest(r) ==
    \/ r.Method = "POST" /\ r.Path \in {"/api/incidents", "/api/maintenance"}
    \/ r.Method \in {"PUT", "PATCH", "DELETE"} /\ r.Path = "/api/incidents/1"
    \/ r.Method \in {"PUT", "PATCH"} /\ r.Path = "/api/maintenance/1"

\* the address the server takes for the client's is on the whitelist (a
\* "*" on the list stands for every address)
Whitelisted(cfg, r) ==
    LET listed == {cfg.AllowedIPs[i] : i \in 1..Len(cfg.AllowedIPs)}
        addr == IF r.XForwardedFor = "10.0.0.1, 9.9.9.9" THEN "10.0.0.1"
                ELSE IF r.XForwardedFor = " 9.9.9.9" THEN "9.9.9.9"
                ELSE IF r.XRealIP # "" THEN r.XRealIP
                ELSE IF r.RemoteAddr = "10.0.0.1:4000" THEN "10.0.0.1"
                ELSE "9.9.9.9"
    IN addr \in listed \/ "*" \in listed

\* the request presents the configured API key, bearer token or basic
\* credentials
ValidCredentials(cfg, r) ==
    \/ cfg.Key # "" /\ (r.XAPIKey = cfg.Key \/ r.QueryKey = cfg.Key)
    \/ cfg.BearerToken # "" /\ r.Authorization = "Bearer " \o cfg.BearerToken
    \/ /\ cfg.BasicAuth.Enabled
       /\ r.Authorization
             = "Basic " \o cfg.BasicAuth.Username \o ":" \o cfg.BasicAuth.Password

\* C39: with an API key, a bearer token or basic auth configured, the
\* handler of a write request runs only if the client address is on the
\* whitelist or the request presents the valid key, token or credentials;
\* a write request with neither is answered 401, and a write request whose
\* handler does not run changes no incident and no maintenance window.
C39_WritesNeedAuthorization ==
    [][(/\ web.request # NoRequest
        /\ web'.request = NoRequest
        /\ WriteRequest(web.request)
        /\ \/ web.config.Key # ""
           \/ web.config.BearerToken # ""
           \/ web.config.BasicAuth.Enabled)
       => LET r == web.request
              cfg == web.config
              allowed == Whitelisted(cfg, r) \/ ValidCredentials(cfg, r)
          IN /\ web'.ran # "" => allowed
             /\ ~allowed => web'.code = 401
             /\ web'.ran = "" =>
                   /\ web'.code = 401
                   /\ web'.incidents = web.incidents
                   /\ web'.maintenance = web.maintenance
                   /\ web'.ids = web.ids]_vars

\* a key is configured and a whitelist that does not name every address; a
\* request was answered 401: no handler ran, and the incident and the
\* maintenance window are as they were
C39_Witness ==
    /\ web.served = 1
    /\ web.config.Key # ""
    /\ web.config.AllowedIPs = <<"10.0.0.1">>
    /\ web.code = 401
    /\ web.ran = ""
    /\ web.incidents = ("1" :> "investigating")
    /\ web.maintenance = ("1" :> "scheduled")

----------------------------------------------------------------------------
(* Claims about the daily history (SpecDaily) *)

\* the dates of the entries of a history
DatesOf(history) == {history[i].Date : i \in 1..Len(history)}

\* C40: a service's daily history never holds two entries of one date and
\* never more than 90 entries; a record for a date the history holds
\* replaces that entry where it stands and moves nothing, a record for a new
\* date is appended, and when that makes 91 entries the first one, the
\* entry recorded longest ago, is dropped; no other service's history
\* changes.
C40_DailyHistoryBounded ==
    /\ [](\A n \in DOMAIN daily.bucket :
             LET h == daily.bucket[n] IN
             /\ Len(h) <= 90
             /\ Cardinality(DatesOf(h)) = Len(h))
    /\ [][daily'.bucket # daily.bucket =>
             LET n == daily'.last.name
                 s == daily'.last.status
                 old == DailyHistory(daily.bucket, n)
                 new == daily'.bucket[n]
             IN /\ \A m \in DOMAIN daily.bucket \ {n} :
                      /\ m \in DOMAIN daily'.bucket
                      /\ daily'.bucket[m] = daily.bucket[m]
                /\ IF s.Date \in DatesOf(old)
                   THEN /\ Len(new) = Len(old)
                        /\ \A i \in 1..Len(old) :
                              new[i] = IF old[i].Date = s.Date THEN s ELSE old[i]
                   ELSE IF Len(old) < 90
                   THEN new = Append(old, s)
                   ELSE new = Append(Tail(old), s)]_vars

\* the recorder ran for 92 days: the history holds 90 entries, the records
\* of the first days are gone, the record of an early date was appended
\* last, and the entry that was replaced stands where it stood
C40_Witness ==
    LET h == DailyHistory(daily.bucket, ServiceNames[1]) IN
    /\ Len(h) = 90
    /\ Today = MaxDays
    /\ h[90].Date = 0
    /\ h[1].Date = 4
    /\ daily.again = 1
    /\ \E i \in 2..89 : h[i].TotalChecks = 3 /\ h[i].Date = i + 3
    /\ Len(DailyHistory(daily.bucket, ServiceNames[2])) = 1

====
